---- MODULE Spec2Model ----
(***************************************************************************)
(* A model of the household calendar: the chat extraction action           *)
(* processMessage (convex/ai.ts) and the event store (convex/events.ts).   *)
(*                                                                         *)
(* Instants are counted in minutes: the source counts milliseconds and     *)
(* every instant below is the source's instant divided by 60 * 1000.       *)
(* An optional value (T | null | undefined) is a sequence of length at     *)
(* most one: << >> is the absent value, << v >> is v.                      *)
(* A title is the sequence of its pieces, each a word or a run of white    *)
(* space; words that follow one another are one space apart.               *)
(***************************************************************************)
EXTENDS Integers, Sequences, FiniteSets, TLC

VARIABLES
    pc,          \* position of the processMessage handler
    request,     \* the arguments and environment of the invocation
    response,    \* what the handler returned, << >> before it returns
    outcome,     \* "none", "returned" or "threw"
    remote,      \* what the call to the extraction service settled to
    remoteCalls, \* outbound calls to the extraction service, this invocation
    events,      \* the events table: document id -> document
    tables,      \* documents ever inserted in each table
    calls,       \* mutations run so far
    lastCall,    \* the last mutation run and how it ended
    originalStart, \* history: the start each event was inserted with
    card,        \* the chat panel's proposal card: none, pending, confirmed
    requests,    \* chat messages the user has sent
    inFlight,    \* the card's createEvent calls that have not completed yet
    db,          \* the tables of the household deployment
    workspaceCalls,   \* calls of the workspace-scoped API so far
    lastWorkspaceCall \* the last such call: its arguments and how it ended

engineVars == << pc, request, response, outcome, remote, remoteCalls >>

storeVars == << events, tables, calls, lastCall, originalStart >>

chatVars == << card, requests, inFlight >>

workspaceVars == << db, workspaceCalls, lastWorkspaceCall >>

vars == << pc, request, response, outcome, remote, remoteCalls,
           events, tables, calls, lastCall, originalStart, card, requests,
           inFlight, db, workspaceCalls, lastWorkspaceCall >>

----------------------------------------------------------------------------
(* Optional values *)

None == << >>

Some(v) == << v >>

IsSome(o) == o # << >>

OrElse(o, d) == IF o = << >> THEN d ELSE o[1]

----------------------------------------------------------------------------
(* Calendar arithmetic of Date.UTC and the getUTC* getters *)

MinutesPerDay == 24 * 60

\* Days from 1970-01-01 to the civil date y-m-d; linear in d, as Date.UTC
\* normalises a day beyond the month's end into the following month.
DaysFromCivil(y, m, d) ==
    LET yy  == IF m <= 2 THEN y - 1 ELSE y
        era == yy \div 400
        yoe == yy - era * 400
        mp  == (m + 9) % 12
        doy == (153 * mp + 2) \div 5 + d - 1
        doe == yoe * 365 + yoe \div 4 - yoe \div 100 + doy
    IN  era * 146097 + doe - 719468

\* The civil date <<y, m, d>> of a day number.
CivilFromDays(z) ==
    LET zz  == z + 719468
        era == zz \div 146097
        doe == zz - era * 146097
        yoe == (doe - doe \div 1460 + doe \div 36524 - doe \div 146096) \div 365
        doy == doe - (365 * yoe + yoe \div 4 - yoe \div 100)
        mp  == (5 * doy + 2) \div 153
        d   == doy - (153 * mp + 2) \div 5 + 1
        m   == IF mp < 10 THEN mp + 3 ELSE mp - 9
        y   == yoe + era * 400 + (IF m <= 2 THEN 1 ELSE 0)
    IN  << y, m, d >>

\* Date.UTC(year, monthIndex, day, hour, minute), in minutes.
DateUTC(year, monthIndex, day, hour, minute) ==
    DaysFromCivil(year, monthIndex + 1, day) * MinutesPerDay + hour * 60 + minute

DayNumber(instant) == instant \div MinutesPerDay

\* Date.prototype.getUTCDay: 0 = Sunday; 1970-01-01 was a Thursday.
getUTCDay(instant) == (DayNumber(instant) + 4) % 7

Min(S) == CHOOSE x \in S : \A y \in S : x <= y

----------------------------------------------------------------------------
(* Strings *)

\* String.prototype.toLowerCase on the names and words the model uses.
toLowerCase(w) ==
    CASE w = "Jordan"   -> "jordan"
      [] w = "JORDAN"   -> "jordan"
      [] w = "Sam"      -> "sam"
      [] w = "George"   -> "george"
      [] w = "Pat"      -> "pat"
      [] w = "Kim"      -> "kim"
      [] w = "Tomorrow" -> "tomorrow"
      [] w = "Today"    -> "today"
      [] w = "Monday"   -> "monday"
      [] w = "Add"      -> "add"
      [] w = "Schedule" -> "schedule"
      [] w = "Create"   -> "create"
      [] OTHER          -> w

\* /\bword\b/.test(message.toLowerCase()): a message is its sequence of words.
HasWord(message, word) ==
    \E i \in 1..Len(message) : toLowerCase(message[i]) = word

----------------------------------------------------------------------------
(* convex/ai.ts: processMessage *)

RECURRING_WEEKS == 8

MsgApiKeyMissing == [kind |-> "set_api_key", detail |-> << >>]

MsgRemoteError == [kind |-> "something_went_wrong", detail |-> << >>]

MsgUsageHint == [kind |-> "not_sure", detail |-> << >>]

MsgText(text) == [kind |-> "output_text", detail |-> << text >>]

TextResponse(msg) ==
    [type |-> "message", message |-> msg, proposal |-> None,
     proposals |-> None, recurrenceId |-> None]

getUserLocalNowAdded(nowMs, timezoneOffsetMinutes) ==
    nowMs + timezoneOffsetMinutes

\* getUserLocalNow: "now" shifted so that the UTC getters read the user's clock.
getUserLocalNow(nowMs, timezoneOffsetMinutes) == nowMs - timezoneOffsetMinutes

\* formatYmdFromLocalDate, read back by split("-").map(Number): <<y, m, d>>.
formatYmdFromLocalDate(localDate) == CivilFromDays(DayNumber(localDate))

inferRelativeDateIgnored(message, userLocalNow) == None

\* inferRelativeDateFromMessage: the date of "tomorrow", "today" or "tonight"
\* on the user's clock, or null.
inferRelativeDateFromMessage(message, userLocalNow) ==
    IF HasWord(message, "tomorrow")
    THEN Some(formatYmdFromLocalDate(userLocalNow + MinutesPerDay))
    ELSE IF HasWord(message, "today") \/ HasWord(message, "tonight")
         THEN Some(formatYmdFromLocalDate(userLocalNow))
         ELSE None

\* new Map(householdMembers.map(m => [m.name.toLowerCase(), m.id])).get(key):
\* the last entry with the key wins; << >> is undefined.
memberNameToId(householdMembers, key) ==
    LET hits == {i \in 1..Len(householdMembers) :
                    toLowerCase(householdMembers[i].name) = key}
    IN  IF hits = {} THEN None
        ELSE Some(householdMembers[CHOOSE i \in hits : \A j \in hits : j <= i].id)

\* The ids of the assigned names that are roster names, in the order given.
RECURSIVE MapAssigned(_, _)
MapAssigned(names, householdMembers) ==
    IF names = << >> THEN << >>
    ELSE LET id == memberNameToId(householdMembers, toLowerCase(Head(names)))
         IN  (IF IsSome(id) /\ id[1] # "" THEN << id[1] >> ELSE << >>)
             \o MapAssigned(Tail(names), householdMembers)

FallbackFirstMember(householdMembers, currentUserName) == householdMembers[1].id

\* The fallback of lines 263-269: the current user's id, else the first member's.
FallbackMemberId(householdMembers, currentUserName) ==
    LET currentName == IF IsSome(currentUserName)
                       THEN toLowerCase(currentUserName[1]) ELSE ""
    IN  IF currentName # ""
        THEN OrElse(memberNameToId(householdMembers, currentName),
                    householdMembers[1].id)
        ELSE householdMembers[1].id

\* resolvedMemberIds of lines 254-269.
ResolveMemberIds(assignedMembers, householdMembers, currentUserName) ==
    LET mapped == MapAssigned(OrElse(assignedMembers, << >>), householdMembers)
    IN  IF mapped = << >> /\ Len(householdMembers) > 0
        THEN << FallbackMemberId(householdMembers, currentUserName) >>
        ELSE mapped

\* durationLabel of lines 276-279: <<"hr", whole, tenth>> or <<"min", n>>.
DurationLabel(durationMinutes) ==
    IF durationMinutes >= 60
    THEN IF durationMinutes % 60 = 0
         THEN << "hr", durationMinutes \div 60, 0 >>
         ELSE LET tenths == (durationMinutes * 10 + 30) \div 60
              IN  << "hr", tenths \div 10, tenths % 10 >>
    ELSE << "min", durationMinutes >>

SortByStartSkipped(seq) == seq

\* Array.prototype.sort((a, b) => a.start - b.start): stable, ascending start.
RECURSIVE SortByStart(_)
SortByStart(seq) ==
    IF Len(seq) <= 1 THEN seq
    ELSE LET last   == seq[Len(seq)]
             sorted == SortByStart(SubSeq(seq, 1, Len(seq) - 1))
             before == {i \in 1..Len(sorted) : sorted[i].start <= last.start}
             cut    == IF before = {} THEN 0
                       ELSE CHOOSE i \in before : \A j \in before : j <= i
         IN  SubSeq(sorted, 1, cut) \o << last >>
             \o SubSeq(sorted, cut + 1, Len(sorted))

\* recurringDays.sort((a, b) => a - b) of line 315.
RECURSIVE SortDays(_)
SortDays(days) ==
    IF Len(days) <= 1 THEN days
    ELSE LET last   == days[Len(days)]
             sorted == SortDays(SubSeq(days, 1, Len(days) - 1))
             before == {i \in 1..Len(sorted) : sorted[i] <= last}
             cut    == IF before = {} THEN 0
                       ELSE CHOOSE i \in before : \A j \in before : j <= i
         IN  SubSeq(sorted, 1, cut) \o << last >>
             \o SubSeq(sorted, cut + 1, Len(sorted))

DaysOffsetUnwrapped(dayNum, firstDow, week) == dayNum - firstDow + week * 7

\* daysOffset of lines 292-294.
DaysOffset(dayNum, firstDow, week) ==
    LET diff == dayNum - firstDow
    IN  (IF diff < 0 THEN diff + 7 ELSE diff) + week * 7

\* The proposal both branches build (lines 300-308 and 355-363).
MakeProposal(parsedArgs, startMs, resolvedMemberIds) ==
    [title       |-> parsedArgs.title,
     start       |-> startMs,
     end         |-> startMs + parsedArgs.durationMinutes,
     location    |-> parsedArgs.location,
     attendees   |-> parsedArgs.attendees,
     description |-> parsedArgs.description,
     memberIds   |-> IF Len(resolvedMemberIds) > 0
                     THEN Some(resolvedMemberIds) ELSE None]

\* The loops of lines 290-310, before the sort: week by week, and within a
\* week in the order of recurringDays.
ExpandRecurring(parsedArgs, ymd, weeks, tzOffset, resolvedMemberIds) ==
    LET days     == parsedArgs.recurringDays[1]
        n        == Len(days)
        firstDow == getUTCDay(DateUTC(ymd[1], ymd[2] - 1, ymd[3], 0, 0))
        count    == IF weeks > 0 THEN weeks * n ELSE 0
    IN  [k \in 1..count |->
            LET week    == (k - 1) \div n
                dayNum  == days[((k - 1) % n) + 1]
                startMs == DateUTC(ymd[1], ymd[2] - 1,
                                   ymd[3] + DaysOffset(dayNum, firstDow, week),
                                   parsedArgs.startHour, parsedArgs.startMinute)
                           + tzOffset
            IN  MakeProposal(parsedArgs, startMs, resolvedMemberIds)]

\* The message of the create_events result (lines 314-339).
BatchMessage(parsedArgs, weeks, count) ==
    LET dayLabels == SortDays(parsedArgs.recurringDays[1])
        dayRange  == IF Len(dayLabels) > 2
                     THEN << dayLabels[1], dayLabels[Len(dayLabels)] >>
                     ELSE dayLabels
        endTotalMinutes == parsedArgs.startHour * 60 + parsedArgs.startMinute
                           + parsedArgs.durationMinutes
    IN  [kind   |-> "adding_every",
         detail |-> << dayRange, parsedArgs.startHour, parsedArgs.startMinute,
                       (endTotalMinutes \div 60) % 24, endTotalMinutes % 60,
                       weeks, count, parsedArgs.location >>]

\* formatTimestamp(startMs, endMs, durationLabel) with the location appended.
SingleMessage(startMs, endMs, durationLabel, location) ==
    LET ymd == CivilFromDays(DayNumber(startMs))
    IN  [kind   |-> "timestamp",
         detail |-> << getUTCDay(startMs), ymd[2], ymd[3],
                       startMs % MinutesPerDay, endMs % MinutesPerDay,
                       durationLabel, location >>]

\* The body of the loop over response.output for a create_event call whose
\* arguments parsed (lines 254-374).
HandleCreateEvent(req, parsedArgs, rnd) ==
    LET tzOffset     == OrElse(req.timezoneOffset, 0)
        members      == OrElse(req.householdMembers, << >>)
        userLocalNow == getUserLocalNow(req.now, tzOffset)
        resolvedMemberIds ==
            ResolveMemberIds(parsedArgs.assignedMembers, members,
                             req.currentUserName)
        ymd == OrElse(inferRelativeDateFromMessage(req.message, userLocalNow),
                      parsedArgs.date)
    IN  IF IsSome(parsedArgs.recurringDays)
           /\ Len(parsedArgs.recurringDays[1]) > 0
        THEN LET weeks == OrElse(parsedArgs.recurringWeeks, RECURRING_WEEKS)
                 proposals ==
                     SortByStart(ExpandRecurring(parsedArgs, ymd, weeks,
                                                 tzOffset, resolvedMemberIds))
             IN  [type         |-> "create_events",
                  message      |-> BatchMessage(parsedArgs, weeks, Len(proposals)),
                  proposal     |-> IF Len(proposals) > 0
                                   THEN Some(proposals[1]) ELSE None,
                  proposals    |-> Some(proposals),
                  recurrenceId |-> Some(<< "recurring", req.now, rnd >>)]
        ELSE LET startMs  == DateUTC(ymd[1], ymd[2] - 1, ymd[3],
                                     parsedArgs.startHour, parsedArgs.startMinute)
                             + tzOffset
                 proposal == MakeProposal(parsedArgs, startMs, resolvedMemberIds)
             IN  [type         |-> "create_event",
                  message      |-> SingleMessage(startMs, proposal.end,
                                      DurationLabel(parsedArgs.durationMinutes),
                                      parsedArgs.location),
                  proposal     |-> Some(proposal),
                  proposals    |-> None,
                  recurrenceId |-> None]

\* What a block of code does: it returns a value or it throws.
Returns(v) == [threw |-> FALSE, value |-> Some(v)]

Throws == [threw |-> TRUE, value |-> None]

\* The items that pass the tests of lines 238-239.
CreateEventCalls(output) ==
    {i \in 1..Len(output) : /\ output[i].type = "function_call"
                            /\ output[i].name = "create_event"}

\* The try block (lines 67-389) once the call of lines 229-235 has settled.
\* JSON.parse of line 240 throws on arguments that are not JSON.
TryBlock(req, settled, rnd) ==
    IF settled.kind = "throw" THEN Throws
    ELSE IF CreateEventCalls(settled.output) # {}
         THEN LET item == settled.output[Min(CreateEventCalls(settled.output))]
              IN  IF ~item.parses THEN Throws
                  ELSE Returns(HandleCreateEvent(req, item.arguments[1], rnd))
         ELSE IF settled.output_text # ""
              THEN Returns(TextResponse(MsgText(settled.output_text)))
              ELSE Returns(TextResponse(MsgUsageHint))

CatchBlockRethrows(req) == Throws

\* The catch block (lines 390-396).
CatchBlock(req) == Returns(TextResponse(MsgRemoteError))

\* try { ... } catch { ... } of lines 67-396.
TryCatch(req, settled, rnd) ==
    LET r == TryBlock(req, settled, rnd)
    IN  IF r.threw THEN CatchBlock(req) ELSE r

----------------------------------------------------------------------------
(* convex/ai.ts: the regular-expression extractor (parseTime, parseDate,   *)
(* extractTitle, parseCommand, regexFallback).  A message is a sequence of *)
(* words that single spaces separate; each regular expression is modelled  *)
(* by what it matches on such a sequence.                                  *)

\* The digits of a word that /(\d{1,2})(:(\d{2}))?\s*(am|pm)?/ reads:
\* its hour, its minutes when it has a colon, and the am/pm glued to it.
ClockOf(w) ==
    CASE w = "3"      -> Some([hour |-> 3,  minute |-> None,     meridiem |-> ""])
      [] w = "5"      -> Some([hour |-> 5,  minute |-> None,     meridiem |-> ""])
      [] w = "8"      -> Some([hour |-> 8,  minute |-> None,     meridiem |-> ""])
      [] w = "2pm"    -> Some([hour |-> 2,  minute |-> None,     meridiem |-> "pm"])
      [] w = "3pm"    -> Some([hour |-> 3,  minute |-> None,     meridiem |-> "pm"])
      [] w = "9am"    -> Some([hour |-> 9,  minute |-> None,     meridiem |-> "am"])
      [] w = "12am"   -> Some([hour |-> 12, minute |-> None,     meridiem |-> "am"])
      [] w = "12PM"   -> Some([hour |-> 12, minute |-> None,     meridiem |-> "PM"])
      [] w = "2:30pm" -> Some([hour |-> 2,  minute |-> Some(30), meridiem |-> "pm"])
      [] w = "14:30"  -> Some([hour |-> 14, minute |-> Some(30), meridiem |-> ""])
      [] w = "9:30"   -> Some([hour |-> 9,  minute |-> Some(30), meridiem |-> ""])
      [] w = "3:30"   -> Some([hour |-> 3,  minute |-> Some(30), meridiem |-> ""])
      [] OTHER        -> None

\* The am/pm a word starts with, which \s*(am|pm) reads after a number.
LeadingMeridiem(w) ==
    CASE w = "pm"     -> "pm"
      [] w = "am"     -> "am"
      [] w = "amigos" -> "am"
      [] OTHER        -> ""

\* meridiem.toLowerCase()
LowerMeridiem(m) == IF m = "PM" THEN "pm" ELSE IF m = "AM" THEN "am" ELSE m

\* The am/pm that follows the digits of word i, glued or after a space.
MeridiemAt(text, i) ==
    IF ClockOf(text[i])[1].meridiem # "" THEN ClockOf(text[i])[1].meridiem
    ELSE IF i < Len(text) THEN LeadingMeridiem(text[i + 1]) ELSE ""

\* Lines 501-507: 12-hour to 24-hour.
ApplyMeridiem(hour, meridiem) ==
    IF LowerMeridiem(meridiem) = "pm" /\ hour # 12 THEN hour + 12
    ELSE IF LowerMeridiem(meridiem) = "am" /\ hour = 12 THEN 0
    ELSE hour

\* parseTime: the first of the three patterns that matches, at its leftmost
\* match; << >> is null.
parseTime(text) ==
    LET clocks == {i \in 1..Len(text) : IsSome(ClockOf(text[i]))}
        \* /(\d{1,2}):(\d{2})\s*(am|pm)/i
        p1 == {i \in clocks : /\ IsSome(ClockOf(text[i])[1].minute)
                              /\ MeridiemAt(text, i) # ""}
        \* /(\d{1,2})\s*(am|pm)/i
        p2 == {i \in clocks : /\ ~IsSome(ClockOf(text[i])[1].minute)
                              /\ MeridiemAt(text, i) # ""}
        \* /(\d{1,2}):(\d{2})/
        p3 == {i \in clocks : IsSome(ClockOf(text[i])[1].minute)}
        At(i, withMeridiem) ==
            LET c == ClockOf(text[i])[1]
            IN  [hour   |-> IF withMeridiem
                            THEN ApplyMeridiem(c.hour, MeridiemAt(text, i))
                            ELSE c.hour,
                 minute |-> OrElse(c.minute, 0)]
    IN  IF p1 # {} THEN Some(At(Min(p1), TRUE))
        ELSE IF p2 # {} THEN Some(At(Min(p2), TRUE))
        ELSE IF p3 # {} THEN Some(At(Min(p3), FALSE))
        ELSE None

\* The index (0 = Sunday) of the weekday name a lower-cased word contains.
WeekdayIn(w) ==
    CASE w = "sunday"    -> Some(0)
      [] w = "monday"    -> Some(1)
      [] w = "mondays"   -> Some(1)
      [] w = "tuesday"   -> Some(2)
      [] w = "wednesday" -> Some(3)
      [] w = "thursday"  -> Some(4)
      [] w = "friday"    -> Some(5)
      [] w = "saturday"  -> Some(6)
      [] OTHER           -> None

\* lowerText.includes("tomorrow")
ContainsTomorrow(w) == toLowerCase(w) = "tomorrow"

\* parseDate: midnight of the day meant, on the server's clock (UTC).
parseDate(text, nowMs) ==
    LET today == DayNumber(nowMs) * MinutesPerDay
        named == {d \in 0..6 : \E i \in 1..Len(text) :
                                  WeekdayIn(toLowerCase(text[i])) = Some(d)}
    IN  IF \E i \in 1..Len(text) : ContainsTomorrow(text[i])
        THEN today + MinutesPerDay
        ELSE IF named # {}
             THEN LET targetDay == Min(named)
                      diff      == targetDay - getUTCDay(today)
                      daysUntil == IF diff <= 0 THEN diff + 7 ELSE diff
                  IN  today + daysUntil * MinutesPerDay
             ELSE today

\* A word that is one of the verbs of /^(add|create|schedule|set up|book|make)/.
IsVerb(w) == toLowerCase(w) \in {"add", "create", "schedule", "book", "make"}

\* A word that starts with one of those verbs.
StartsWithVerb(w) == IsVerb(w) \/ toLowerCase(w) \in {"address", "booking"}

\* /meeting|appointment|event|reminder/i matches inside the word.
ContainsCreateKeyword(w) ==
    toLowerCase(w) \in {"meeting", "meetings", "appointment", "event",
                        "prevent", "reminder"}

IsPreposition(w) == toLowerCase(w) \in {"at", "for", "on", "from", "to"}

IsAmPm(w) == toLowerCase(w) \in {"am", "pm"}

\* A word of fewer than three characters.
IsShort(w) ==
    w \in {"a", "an", "at", "on", "to", "up", "am", "pm", "3", "5", "8", "go"}

\* \w+day
EndsWithDay(w) == IsSome(WeekdayIn(toLowerCase(w))) \/ toLowerCase(w) = "today"

\* A word that ends with "to" or "for", which (?:to|for)\s+ can end on.
EndsWithToOrFor(w) == toLowerCase(w) \in {"to", "for", "into"}

\* A word that starts with "at" or "on", which \s+at and \s+on read.
StartsWithAtOrOn(w) == toLowerCase(w) \in {"at", "on", "once"}

\* title.charAt(0).toUpperCase() + title.slice(1), on the first word.
Capitalize(w) ==
    CASE w = "meeting" -> "Meeting"
      [] w = "dentist" -> "Dentist"
      [] w = "team"    -> "Team"
      [] w = "take"    -> "Take"
      [] w = "coffee"  -> "Coffee"
      [] w = "workshop" -> "Workshop"
      [] w = "haircut" -> "Haircut"
      [] w = "go"      -> "Go"
      [] w = "event"   -> "Event"
      [] OTHER         -> w

\* The words of seq that pass the test, in order.
RECURSIVE Keep(_, _)
Keep(seq, kept) ==
    IF seq = << >> THEN << >>
    ELSE (IF kept[1] THEN << Head(seq) >> ELSE << >>)
         \o Keep(Tail(seq), Tail(kept))

\* extractTitle: the title as its sequence of words.
extractTitle(text) ==
    LET \* /^(add|create|schedule|set up|book|make)\s+/i
        afterVerb ==
            IF Len(text) >= 2 /\ IsVerb(text[1]) THEN Tail(text)
            ELSE IF Len(text) >= 3 /\ toLowerCase(text[1]) = "set"
                    /\ toLowerCase(text[2]) = "up"
                 THEN Tail(Tail(text))
                 ELSE text
        \* /^(a|an)\s+/i
        t == IF Len(afterVerb) >= 2 /\ toLowerCase(afterVerb[1]) \in {"a", "an"}
             THEN Tail(afterVerb) ELSE afterVerb
        n == Len(t)
        IsClock(i) == i \in 1..n /\ IsSome(ClockOf(t[i]))
        Glued(i)   == IsClock(i) /\ ClockOf(t[i])[1].meridiem # ""
        \* /\b(at|for|on|from|to)\s+\d{1,2}(:\d{2})?\s*(am|pm)?\b/gi
        AfterPrep(i) == IsClock(i) /\ i > 1 /\ IsPreposition(t[i - 1])
        \* /\b\d{1,2}(:\d{2})?\s*(am|pm)\b/gi
        WithAmPm(i)  == IsClock(i) /\ (Glued(i) \/ (i < n /\ IsAmPm(t[i + 1])))
        removed(i) ==
            \/ AfterPrep(i)
            \/ (i < n /\ IsPreposition(t[i]) /\ AfterPrep(i + 1))
            \/ WithAmPm(i)
            \/ (i > 1 /\ IsAmPm(t[i]) /\ IsClock(i - 1) /\ ~Glued(i - 1))
            \* /\b(tomorrow|today|next\s+\w+day)\b/gi
            \/ toLowerCase(t[i]) \in {"tomorrow", "today"}
            \/ (i < n /\ toLowerCase(t[i]) = "next" /\ EndsWithDay(t[i + 1]))
            \/ (i > 1 /\ toLowerCase(t[i - 1]) = "next" /\ EndsWithDay(t[i]))
            \* /\b(monday|...|sunday)\b/gi
            \/ (toLowerCase(t[i]) # "mondays"
                /\ IsSome(WeekdayIn(toLowerCase(t[i]))))
        \* /^(meeting\s+to|to)\s+/i, which matches only at the very start
        lead ==
            IF n >= 2 /\ ~removed(1) /\ toLowerCase(t[1]) = "to" THEN 1
            ELSE IF n >= 3 /\ ~removed(1) /\ toLowerCase(t[1]) = "meeting"
                    /\ \E j \in 2..(n - 1) :
                          /\ ~removed(j) /\ toLowerCase(t[j]) = "to"
                          /\ \A k \in 2..(j - 1) : removed(k)
                 THEN CHOOSE j \in 2..(n - 1) :
                          /\ ~removed(j) /\ toLowerCase(t[j]) = "to"
                          /\ \A k \in 2..(j - 1) : removed(k)
                 ELSE 0
        title == Keep(t, [i \in 1..n |-> i > lead /\ ~removed(i)])
        \* text.match(/(?:to|for)\s+(.+?)(?:\s+at|\s+on|$)/i)
        from  == {i \in 1..(Len(text) - 1) : EndsWithToOrFor(text[i])}
        final ==
            IF Len(title) >= 2 \/ (Len(title) = 1 /\ ~IsShort(title[1]))
            THEN title
            ELSE IF from # {}
                 THEN LET i    == Min(from)
                          stop == {k \in (i + 1)..Len(text) :
                                      k = Len(text)
                                      \/ StartsWithAtOrOn(text[k + 1])}
                      IN  SubSeq(text, i + 1, Min(stop))
                 ELSE << "New", "event" >>
    IN  IF final = << >> THEN final
        ELSE << Capitalize(final[1]) >> \o Tail(final)

\* parseCommand: << >> is { action: 'unknown' }.
parseCommand(message, nowMs) ==
    LET isCreate ==
            \/ (Len(message) >= 1 /\ StartsWithVerb(message[1]))
            \/ (Len(message) >= 2 /\ toLowerCase(message[1]) = "set"
                /\ toLowerCase(message[2]) = "up")
            \/ \E i \in 1..Len(message) : ContainsCreateKeyword(message[i])
    IN  IF isCreate
        THEN Some([title     |-> extractTitle(message),
                   date      |-> parseDate(message, nowMs),
                   startTime |-> OrElse(parseTime(message),
                                        [hour |-> 12, minute |-> 0]),
                   duration  |-> 60])
        ELSE None

\* regexFallback after its call of parseCommand (lines 615-645):
\* { success, event } (the message text is not modelled).
FallbackResult(parsed) ==
    IF IsSome(parsed) /\ Len(parsed[1].title) > 0
    THEN LET start == parsed[1].date + parsed[1].startTime.hour * 60
                      + parsed[1].startTime.minute
         IN  [success |-> TRUE,
              event   |-> Some([title |-> parsed[1].title,
                                start |-> start,
                                end   |-> start + parsed[1].duration])]
    ELSE [success |-> FALSE, event |-> None]

\* regexFallback (lines 608-646).
regexFallback(message, nowMs) == FallbackResult(parseCommand(message, nowMs))

----------------------------------------------------------------------------
(* JavaScript numbers: an instant or NaN.  Every comparison with NaN is     *)
(* false and every difference with NaN is NaN.                              *)

NaN == 0 - 2 ^ 30

IsNaN(x) == x = NaN

Minus(a, b) == IF IsNaN(a) \/ IsNaN(b) THEN NaN ELSE a - b

Gt(a, b) == ~IsNaN(a) /\ ~IsNaN(b) /\ a > b

Le(a, b) == ~IsNaN(a) /\ ~IsNaN(b) /\ a <= b

Lt(a, b) == ~IsNaN(a) /\ ~IsNaN(b) /\ a < b

----------------------------------------------------------------------------
(* convex/eventValidation.ts and convex/events.ts: the event store *)

\* 24 * 60 * 60 * 1000 ms, in minutes.
MAX_EVENT_DURATION_MS == 24 * 60

\* 7 * 24 * 60 * 60 * 1000 ms of getWeekEvents, in minutes.
WeekLength == 7 * 24 * 60

IsWhiteSpace(piece) == piece \in {" ", "  "}

\* String.prototype.trim
RECURSIVE trim(_)
trim(title) ==
    IF title = << >> THEN title
    ELSE IF IsWhiteSpace(Head(title)) THEN trim(Tail(title))
    ELSE IF IsWhiteSpace(title[Len(title)])
         THEN trim(SubSeq(title, 1, Len(title) - 1))
    ELSE title

\* validateEvent: the error it throws, << >> when it returns.
validateEvent(args) ==
    IF trim(args.title) = << >> THEN Some("Title cannot be empty")
    ELSE IF Le(args.end, args.start)
         THEN Some("End time must be after start time")
    ELSE IF Gt(Minus(args.end, args.start), MAX_EVENT_DURATION_MS)
         THEN Some("Event duration cannot exceed 24 hours")
    ELSE None

\* The document of an event, with its _id.
Doc(evts, id) ==
    [id         |-> id,
     title      |-> evts[id].title,
     start      |-> evts[id].start,
     end        |-> evts[id].end,
     recurrence |-> evts[id].recurrence]

\* A scan of the index by_start: by start, then by creation.
RECURSIVE IndexScan(_, _)
IndexScan(evts, ids) ==
    IF ids = {} THEN << >>
    ELSE LET first == CHOOSE i \in ids :
                          \A j \in ids :
                              \/ evts[i].start < evts[j].start
                              \/ (evts[i].start = evts[j].start /\ i <= j)
         IN  << Doc(evts, first) >> \o IndexScan(evts, ids \ {first})

getEventsStartingInRange(evts, rangeStart, rangeEnd) ==
    SortByStart(IndexScan(evts, {id \in DOMAIN evts :
                                    /\ evts[id].start >= rangeStart
                                    /\ evts[id].start < rangeEnd}))

\* getEventsOverlappingRange (events.ts lines 6-22).
getEventsOverlappingRange(evts, rangeStart, rangeEnd) ==
    LET earliestRelevantStart == rangeStart - MAX_EVENT_DURATION_MS
        candidates ==
            IndexScan(evts, {id \in DOMAIN evts :
                                /\ evts[id].start >= earliestRelevantStart
                                /\ evts[id].start < rangeEnd})
        EndsAfter(event) == Gt(event.end, rangeStart)
    IN  SortByStart(SelectSeq(candidates, EndsAfter))

\* getWeekEvents (events.ts lines 24-33).
getWeekEvents(evts, weekStart) ==
    getEventsOverlappingRange(evts, weekStart, weekStart + WeekLength)

\* The get-or-create of the default calendar (events.ts lines 94-120).
EnsureDefaultCalendar(t) ==
    IF t.calendars = 0
    THEN [t EXCEPT !.users = @ + 1, !.workspaces = @ + 1, !.calendars = @ + 1]
    ELSE t

\* ctx.db.insert("events", ...) of a list of events, one after the other.
RECURSIVE InsertAll(_, _, _, _)
InsertAll(evts, inserted, list, recurrenceId) ==
    IF list = << >> THEN evts
    ELSE InsertAll([id \in DOMAIN evts \cup {inserted + 1} |->
                       IF id = inserted + 1
                       THEN [title      |-> Head(list).title,
                             start      |-> Head(list).start,
                             end        |-> Head(list).end,
                             recurrence |-> recurrenceId]
                       ELSE evts[id]],
                   inserted + 1, Tail(list), recurrenceId)

\* The starts of the events InsertAll inserts, by id.
NewStarts(starts, inserted, list) ==
    [id \in DOMAIN starts \cup ((inserted + 1)..(inserted + Len(list))) |->
        IF id \in DOMAIN starts THEN starts[id] ELSE list[id - inserted].start]

Without(f, ids) == [id \in DOMAIN f \ ids |-> f[id]]

RecurringFromExclusive(evts, recurrenceId, fromStart) ==
    {id \in DOMAIN evts : /\ evts[id].start > fromStart
                          /\ evts[id].recurrence = Some(recurrenceId)}

\* toDelete of deleteRecurringEvents (events.ts lines 235-244).
RecurringFrom(evts, recurrenceId, fromStart) ==
    {id \in DOMAIN evts : /\ evts[id].start >= fromStart
                          /\ evts[id].recurrence = Some(recurrenceId)}

\* buildDate of seedDemo (events.ts lines 292-302); the server's zone is UTC.
buildDate(now, dayOffset, hour, minute) ==
    LET today        == DayNumber(now) * MinutesPerDay
        dayOfWeek    == getUTCDay(today)
        mondayOffset == IF dayOfWeek = 0 THEN -6 ELSE 1 - dayOfWeek
    IN  today + (mondayOffset + dayOffset) * MinutesPerDay + hour * 60 + minute

SeedEvent(now, title, dayOffset, h1, m1, h2, m2) ==
    [title |-> title,
     start |-> buildDate(now, dayOffset, h1, m1),
     end   |-> buildDate(now, dayOffset, h2, m2)]

\* The events of seedDemo (events.ts lines 304-389).
SeedEvents(now) ==
    << SeedEvent(now, << "School", "drop-off" >>, 0, 7, 30, 8, 0),
       SeedEvent(now, << "Team", "standup" >>, 0, 9, 0, 9, 30),
       SeedEvent(now, << "Grocery", "pickup" >>, 0, 17, 0, 17, 30),
       SeedEvent(now, << "Lunch", "with", "grandparents" >>, 1, 12, 0, 13, 30),
       SeedEvent(now, << "Piano", "lesson" >>, 1, 16, 0, 17, 0),
       SeedEvent(now, << "Dentist", "appointment" >>, 2, 10, 0, 10, 45),
       SeedEvent(now, << "Book", "club", "meeting" >>, 2, 14, 0, 15, 30),
       SeedEvent(now, << "Soccer", "practice" >>, 3, 16, 0, 17, 30),
       SeedEvent(now, << "Parent-teacher", "conference" >>, 4, 15, 0, 15, 45),
       SeedEvent(now, << "Movie", "matinee" >>, 5, 14, 0, 16, 30),
       SeedEvent(now, << "Farmers", "market" >>, 6, 9, 0, 11, 0),
       SeedEvent(now, << "Brunch", "with", "friends" >>, 6, 11, 30, 13, 0) >>

----------------------------------------------------------------------------
(* The inputs of processMessage *)

MaxWeeks == 2

TitleCoffee == << "Coffee" >>

Monday1000 == DateUTC(2024, 0, 1, 18, 0)

LateSunday == DateUTC(2024, 0, 1, 3, 0)

Messages ==
    { << "dentist", "2pm" >>,
      << "coffee", "with", "george", "Tomorrow", "3" >>,
      << "gym", "today" >>,
      << "dinner", "tonight" >>,
      << "lunch", "today", "dinner", "tomorrow" >>,
      << "Add", "dentist", "at", "2pm", "tomorrow" >> }

Households ==
    { [householdMembers |-> None, currentUserName |-> None],
      [householdMembers |-> Some(<< >>), currentUserName |-> Some("Jordan")],
      [householdMembers |-> Some(<< [id |-> "u1", name |-> "Jordan"] >>),
       currentUserName  |-> Some("Jordan")],
      [householdMembers |-> Some(<< [id |-> "u1", name |-> "Jordan"],
                                    [id |-> "u2", name |-> "Sam"] >>),
       currentUserName  |-> None],
      [householdMembers |-> Some(<< [id |-> "u1", name |-> "Jordan"],
                                    [id |-> "u2", name |-> "Sam"] >>),
       currentUserName  |-> Some("Sam")],
      [householdMembers |-> Some(<< [id |-> "u1", name |-> "Jordan"],
                                    [id |-> "u2", name |-> "Sam"] >>),
       currentUserName  |-> Some("Pat")] }

Requests ==
    { [message          |-> m,
       timezoneOffset   |-> tz,
       householdMembers |-> h.householdMembers,
       currentUserName  |-> h.currentUserName,
       now              |-> now,
       apiKey           |-> key] :
        m \in Messages, tz \in {None, Some(480), Some(-60)},
        h \in Households, now \in {Monday1000, LateSunday},
        key \in BOOLEAN }

BaseArgs ==
    [title           |-> TitleCoffee,
     date            |-> << 2024, 1, 2 >>,
     startHour       |-> 15,
     startMinute     |-> 0,
     durationMinutes |-> 30,
     location        |-> None,
     attendees       |-> None,
     description     |-> None,
     recurringDays   |-> None,
     recurringWeeks  |-> None,
     assignedMembers |-> None]

RecurringDaysInputs ==
    { None, Some(<< >>), Some(<< 3 >>), Some(<< 1, 5 >>), Some(<< 5, 1 >>),
      Some(<< 2, 2 >>), Some(<< 6, 0, 3 >>) }

RecurringWeeksInputs == {None} \cup {Some(w) : w \in -1..MaxWeeks}

\* Titles and durations, for a single event and for a series.
ArgsTitleDuration ==
    { [BaseArgs EXCEPT !.title = t, !.durationMinutes = d,
                       !.recurringDays = rd, !.recurringWeeks = Some(1)] :
        t \in {<< >>, TitleCoffee}, d \in {-30, 0, 30, 100, 420},
        rd \in {None, Some(<< 1, 5 >>)} }

\* Dates, clock times and places.
ArgsWhenWhere ==
    { [BaseArgs EXCEPT !.date = ymd, !.startHour = h, !.startMinute = mi,
                       !.location = loc] :
        ymd \in {<< 2024, 1, 2 >>, << 2024, 2, 28 >>}, h \in {9, 23},
        mi \in {0, 30}, loc \in {None, Some("Blue Bottle")} }

\* Series.
ArgsRecurring ==
    { [BaseArgs EXCEPT !.date = ymd, !.startHour = h, !.durationMinutes = d,
                       !.recurringDays = rd, !.recurringWeeks = rw] :
        ymd \in {<< 2024, 1, 2 >>, << 2024, 2, 28 >>}, h \in {9, 23},
        d \in {30, 420}, rd \in RecurringDaysInputs,
        rw \in RecurringWeeksInputs }

\* Assignments and attendees.
ArgsMembers ==
    { [BaseArgs EXCEPT !.assignedMembers = am, !.attendees = at,
                       !.recurringDays = rd, !.recurringWeeks = Some(1)] :
        am \in {None, Some(<< >>), Some(<< "JORDAN" >>), Some(<< "George" >>),
                Some(<< "Sam", "George", "Jordan" >>)},
        at \in {None, Some(<< "George" >>)},
        rd \in {None, Some(<< 1, 5 >>)} }

RemoteArgs == ArgsTitleDuration \cup ArgsWhenWhere \cup ArgsRecurring \cup ArgsMembers

CreateEventCall(parsedArgs) ==
    [type |-> "function_call", name |-> "create_event", parses |-> TRUE,
     arguments |-> Some(parsedArgs)]

MalformedCall ==
    [type |-> "function_call", name |-> "create_event", parses |-> FALSE,
     arguments |-> None]

TextItem == [type |-> "message", name |-> "", parses |-> FALSE, arguments |-> None]

\* What the call of lines 229-235 can settle to.
RemoteOutcomes ==
    { [kind |-> "throw", output |-> << >>, output_text |-> ""] }
    \cup { [kind |-> "output", output |-> out, output_text |-> txt] :
             out \in {<< >>, << TextItem >>, << MalformedCall >>,
                      << TextItem, MalformedCall >>},
             txt \in {"", "Sure!"} }
    \cup { [kind |-> "output", output |-> << CreateEventCall(a) >>,
            output_text |-> ""] : a \in RemoteArgs }
    \cup { [kind |-> "output",
            output |-> << TextItem, CreateEventCall(BaseArgs), MalformedCall >>,
            output_text |-> "Sure!"] }

\* Math.random().toString(36).slice(2, 8)
RandomSuffixes == {"k3x9qa", "07zzb1"}

----------------------------------------------------------------------------
(* The inputs of the event store *)

MaxCalls == 3

\* Monday 2024-01-01 00:00 UTC.
WeekZero == DateUTC(2024, 0, 1, 0, 0)

Instants ==
    { WeekZero - 12 * 60, WeekZero, WeekZero + 12 * 60,
      WeekZero + WeekLength - 12 * 60, WeekZero + WeekLength + 12 * 60 }

TitleSwim == << "Swim" >>

\* The arguments of createEvent, updateEvent and createEventFromAI: every
\* pair of instants under one title, an end of NaN, every title over one pair.
EventInputs ==
    { [title |-> TitleSwim, start |-> st, end |-> en] :
        st \in Instants, en \in Instants }
    \cup { [title |-> TitleSwim, start |-> WeekZero, end |-> NaN] }
    \cup { [title |-> t, start |-> WeekZero, end |-> WeekZero + 12 * 60] :
             t \in {<< >>, << " " >>, << "  ", "Swim", " " >>} }

\* The arguments updateEvent is called with: two moves, an end before the
\* start, an end of NaN and a blank title.
UpdateInputs ==
    { [title |-> TitleSwim, start |-> WeekZero - 12 * 60,
       end |-> WeekZero + 12 * 60],
      [title |-> TitleSwim, start |-> WeekZero + WeekLength - 12 * 60,
       end |-> WeekZero + WeekLength + 12 * 60],
      [title |-> TitleSwim, start |-> WeekZero, end |-> WeekZero - 12 * 60],
      [title |-> TitleSwim, start |-> WeekZero, end |-> NaN],
      [title |-> << " " >>, start |-> WeekZero, end |-> WeekZero + 12 * 60] }

RecurrenceIds == {"recurring-1", "recurring-2"}

SeriesEvent(k, hours) ==
    [title |-> TitleSwim,
     start |-> WeekZero + k * 12 * 60,
     end   |-> WeekZero + k * 12 * 60 + hours * 60]

\* The lists batchCreateEvents is called with.
BatchInputs ==
    { << >>,
      << SeriesEvent(0, 1) >>,
      << SeriesEvent(-1, 2), SeriesEvent(1, 2) >>,
      << SeriesEvent(1, 1), SeriesEvent(-1, 24), SeriesEvent(13, 1) >>,
      << SeriesEvent(0, 1), SeriesEvent(1, 0) >>,
      << SeriesEvent(0, 1), SeriesEvent(1, 25) >> }

SeedNows == {WeekZero + 10 * 60, WeekZero + 6 * MinutesPerDay + 3 * 60}

WeekStarts ==
    { WeekZero - WeekLength, WeekZero, WeekZero + 11 * 60, WeekZero + 12 * 60,
      WeekZero + WeekLength }

\* The value of lastCall before any mutation ran.
NoCall ==
    [op |-> "none", rejected |-> FALSE, recurrenceId |-> None,
     fromStart |-> None, deleted |-> {}]

Ran(op) == [NoCall EXCEPT !.op = op]

Rejected(op) == [NoCall EXCEPT !.op = op, !.rejected = TRUE]

\* The tables of a new deployment (schema.ts): each table maps document ids
\* to documents, and ids counts the documents ever inserted in each table.
EmptyDb ==
    [users |-> << >>, workspaces |-> << >>, memberships |-> << >>,
     calendars |-> << >>, events |-> << >>,
     ids |-> [users |-> 0, workspaces |-> 0, memberships |-> 0,
              calendars |-> 0, events |-> 0]]

\* The value of lastWorkspaceCall before any call.
NoWorkspaceCall ==
    [op |-> "none", workspaceId |-> 0, actorUserId |-> 0, threw |-> FALSE,
     error |-> None, returned |-> {}]

----------------------------------------------------------------------------
(* The handler of processMessage as a process: lines 50-397 *)

Init ==
    /\ pc = "idle"
    /\ request = None
    /\ response = None
    /\ outcome = "none"
    /\ remote = None
    /\ remoteCalls = 0
    /\ events = << >>
    /\ tables = [users |-> 0, workspaces |-> 0, memberships |-> 0,
                 calendars |-> 0, events |-> 0]
    /\ calls = 0
    /\ lastCall = NoCall
    /\ originalStart = << >>
    /\ card = "none"
    /\ requests = 0
    /\ inFlight = << >>
    /\ db = EmptyDb
    /\ workspaceCalls = 0
    /\ lastWorkspaceCall = NoWorkspaceCall

LegacyHandlerMutations(req, resp) ==
    IF resp.type = "create_event"
    THEN << [title |-> resp.proposal[1].title,
             start |-> resp.proposal[1].start,
             end   |-> resp.proposal[1].end] >>
    ELSE << >>

\* The handler is given _ctx and never uses it (line 50): it runs no
\* mutation, whatever it returns.
HandlerMutations(req, resp) == << >>

\* The effect on the store of the mutations the handler runs.
RunHandlerMutations(list) ==
    /\ events' = InsertAll(events, tables.events, list, None)
    /\ originalStart' = NewStarts(originalStart, tables.events, list)
    /\ tables' = IF list = << >> THEN tables
                 ELSE [EnsureDefaultCalendar(tables)
                          EXCEPT !.events = @ + Len(list)]
    /\ UNCHANGED << calls, lastCall >>

\* Lines 53-65: without OPENAI_API_KEY the handler returns at once.
InvokeWithoutKey(req) ==
    /\ pc = "idle"
    /\ ~req.apiKey
    /\ request' = Some(req)
    /\ response' = Some(TextResponse(MsgApiKeyMissing))
    /\ outcome' = "returned"
    /\ pc' = "done"
    /\ RunHandlerMutations(
           HandlerMutations(req, TextResponse(MsgApiKeyMissing)))
    /\ UNCHANGED << remote, remoteCalls >>
    /\ UNCHANGED chatVars
    /\ UNCHANGED workspaceVars

\* Lines 67-235: the handler builds the prompt and awaits the remote call.
InvokeWithKey(req) ==
    /\ pc = "idle"
    /\ req.apiKey
    /\ request' = Some(req)
    /\ remoteCalls' = remoteCalls + 1
    /\ pc' = "awaiting"
    /\ UNCHANGED << response, outcome, remote >>
    /\ UNCHANGED storeVars
    /\ UNCHANGED chatVars
    /\ UNCHANGED workspaceVars

RetryOnceAfterThrow(settled) == IF settled.kind = "throw" THEN 1 ELSE 0

\* The calls of the extraction service the handler issues after the first one
\* settled: the try block returns from its loop over response.output or with
\* the text, the catch block returns a message (lines 237-396), and neither
\* calls client.responses.create again.
FurtherRemoteCalls(settled) == 0

\* Lines 237-396: the call settled; the handler returns or throws.
RemoteSettles(settled, rnd) ==
    /\ pc = "awaiting"
    /\ remote' = Some(settled)
    /\ LET r == TryCatch(request[1], settled, rnd)
       IN  /\ outcome' = IF r.threw THEN "threw" ELSE "returned"
           /\ response' = r.value
           /\ RunHandlerMutations(
                  IF r.threw THEN << >>
                  ELSE HandlerMutations(request[1], r.value[1]))
    /\ pc' = "done"
    /\ remoteCalls' = remoteCalls + FurtherRemoteCalls(settled)
    /\ UNCHANGED request
    /\ UNCHANGED chatVars
    /\ UNCHANGED workspaceVars

Next ==
    \/ \E req \in Requests : InvokeWithoutKey(req)
    \/ \E req \in Requests : InvokeWithKey(req)
    \/ \E settled \in RemoteOutcomes, rnd \in RandomSuffixes :
          RemoteSettles(settled, rnd)

Spec == Init /\ [][Next]_vars

----------------------------------------------------------------------------
(* The mutations of the event store, each one transaction *)

ThrowAfterDefaults(op) ==
    /\ lastCall' = Rejected(op)
    /\ tables' = EnsureDefaultCalendar(tables)
    /\ UNCHANGED << events, originalStart >>

\* A mutation that throws leaves the tables as they were.
Throw(op) ==
    /\ lastCall' = Rejected(op)
    /\ UNCHANGED << events, tables, originalStart >>

\* The insert of one event by createEvent and createEventFromAI.
InsertOne(op, args) ==
    /\ events' = InsertAll(events, tables.events, << args >>, None)
    /\ originalStart' = NewStarts(originalStart, tables.events, << args >>)
    /\ tables' = [EnsureDefaultCalendar(tables) EXCEPT !.events = @ + 1]
    /\ lastCall' = Ran(op)

\* createEvent (events.ts lines 82-134).
createEvent(args) ==
    /\ calls < MaxCalls
    /\ calls' = calls + 1
    /\ IF IsSome(validateEvent(args))
       THEN Throw("createEvent")
       ELSE InsertOne("createEvent", args)
    /\ UNCHANGED engineVars
    /\ UNCHANGED workspaceVars

\* createEventFromAI (aiMutations.ts lines 5-53).
createEventFromAI(args) ==
    /\ calls < MaxCalls
    /\ calls' = calls + 1
    /\ IF IsSome(validateEvent(args))
       THEN Throw("createEventFromAI")
       ELSE InsertOne("createEventFromAI", args)
    /\ UNCHANGED engineVars
    /\ UNCHANGED workspaceVars

\* updateEvent (events.ts lines 136-153); patch throws on a missing document.
updateEvent(id, args) ==
    /\ calls < MaxCalls
    /\ calls' = calls + 1
    /\ IF IsSome(validateEvent(args)) \/ id \notin DOMAIN events
       THEN Throw("updateEvent")
       ELSE /\ events' = [events EXCEPT ![id].title = args.title,
                                        ![id].start = args.start,
                                        ![id].end = args.end]
            /\ lastCall' = Ran("updateEvent")
            /\ UNCHANGED << tables, originalStart >>
    /\ UNCHANGED engineVars
    /\ UNCHANGED workspaceVars

\* batchCreateEvents (events.ts lines 155-218).
batchCreateEvents(list, recurrenceId) ==
    /\ calls < MaxCalls
    /\ calls' = calls + 1
    /\ IF \E i \in 1..Len(list) : IsSome(validateEvent(list[i]))
       THEN Throw("batchCreateEvents")
       ELSE /\ events' = InsertAll(events, tables.events, list, recurrenceId)
            /\ originalStart' = NewStarts(originalStart, tables.events, list)
            /\ tables' = [EnsureDefaultCalendar(tables)
                             EXCEPT !.events = @ + Len(list)]
            /\ lastCall' = Ran("batchCreateEvents")
    /\ UNCHANGED engineVars
    /\ UNCHANGED workspaceVars

\* deleteEvent (events.ts lines 220-227); delete throws on a missing document.
deleteEvent(id) ==
    /\ calls < MaxCalls
    /\ calls' = calls + 1
    /\ IF id \notin DOMAIN events
       THEN Throw("deleteEvent")
       ELSE /\ events' = Without(events, {id})
            /\ lastCall' = [Ran("deleteEvent") EXCEPT !.deleted = {id}]
            /\ UNCHANGED << tables, originalStart >>
    /\ UNCHANGED engineVars
    /\ UNCHANGED workspaceVars

\* deleteRecurringEvents (events.ts lines 229-248).
deleteRecurringEvents(recurrenceId, fromStart) ==
    /\ calls < MaxCalls
    /\ calls' = calls + 1
    /\ LET toDelete == RecurringFrom(events, recurrenceId, fromStart)
       IN  /\ events' = Without(events, toDelete)
           /\ lastCall' = [op           |-> "deleteRecurringEvents",
                           rejected     |-> FALSE,
                           recurrenceId |-> Some(recurrenceId),
                           fromStart    |-> Some(fromStart),
                           deleted      |-> toDelete]
    /\ UNCHANGED << tables, originalStart >>
    /\ UNCHANGED engineVars
    /\ UNCHANGED workspaceVars

\* seedDemo (events.ts lines 250-408).
seedDemo(now) ==
    /\ calls < MaxCalls
    /\ calls' = calls + 1
    /\ IF DOMAIN events # {}
       THEN /\ lastCall' = Ran("seedDemo")
            /\ UNCHANGED << events, tables, originalStart >>
       ELSE /\ events' = InsertAll(events, tables.events, SeedEvents(now), None)
            /\ originalStart' = NewStarts(originalStart, tables.events,
                                          SeedEvents(now))
            /\ tables' = [users       |-> tables.users + 1,
                          workspaces  |-> tables.workspaces + 1,
                          memberships |-> tables.memberships + 1,
                          calendars   |-> tables.calendars + 1,
                          events      |-> tables.events + Len(SeedEvents(now))]
            /\ lastCall' = Ran("seedDemo")
    /\ UNCHANGED engineVars
    /\ UNCHANGED workspaceVars

\* The ids a client can hold: of every event ever inserted.
KnownIds == 1..tables.events

NextStore ==
    \/ \E args \in EventInputs : createEvent(args) /\ UNCHANGED chatVars
    \/ \E args \in EventInputs : createEventFromAI(args) /\ UNCHANGED chatVars
    \/ \E id \in KnownIds, args \in UpdateInputs :
          updateEvent(id, args) /\ UNCHANGED chatVars
    \/ \E list \in BatchInputs, rid \in {None} \cup {Some(r) : r \in RecurrenceIds} :
          batchCreateEvents(list, rid) /\ UNCHANGED chatVars
    \/ \E id \in KnownIds : deleteEvent(id) /\ UNCHANGED chatVars
    \/ \E rid \in RecurrenceIds, fromStart \in Instants :
          deleteRecurringEvents(rid, fromStart) /\ UNCHANGED chatVars
    \/ \E now \in SeedNows : seedDemo(now) /\ UNCHANGED chatVars

SpecStore == Init /\ [][NextStore]_vars

----------------------------------------------------------------------------
(* app/calendar/chat-panel.tsx: the chat panel, which sends a message to    *)
(* processMessage, shows the proposal on a card and saves it on Add.  The   *)
(* browser's zone is the one of timezoneOffset.                             *)

MaxFollowUps == 1

MIN_RECURRING_WEEKS == 1

MAX_RECURRING_WEEKS == 24

Max2(a, b) == IF a >= b THEN a ELSE b

Min2(a, b) == IF a <= b THEN a ELSE b

\* clampWeeks (lines 636-638).
clampWeeks(value) ==
    Min2(MAX_RECURRING_WEEKS, Max2(MIN_RECURRING_WEEKS, value))

\* Date.prototype.getDay in the browser's zone.
getDay(instant, tzOffset) == getUTCDay(instant - tzOffset)

\* The weekdays of a list of proposals, ascending and without repeats.
RECURSIVE DaysAscending(_)
DaysAscending(days) ==
    IF days = {} THEN << >>
    ELSE << Min(days) >> \o DaysAscending(days \ {Min(days)})

\* getRecurringSeriesMeta (lines 640-660), for a list that is not empty.
getRecurringSeriesMeta(proposals, tzOffset) ==
    LET sorted        == SortByStart(proposals)
        recurringDays ==
            DaysAscending({getDay(sorted[i].start, tzOffset) :
                               i \in 1..Len(sorted)})
        daysPerWeek   == Max2(1, Len(recurringDays))
        weeks         == Max2(1, (Len(sorted) + daysPerWeek - 1) \div daysPerWeek)
    IN  [recurringDays   |-> recurringDays,
         weeks           |-> weeks,
         anchorStart     |-> sorted[1].start,
         durationMinutes |-> Max2(15, sorted[1].end - sorted[1].start)]

\* buildRecurringProposals (lines 662-694).
buildRecurringProposals(baseProposal, meta, weeks, tzOffset) ==
    LET clampedWeeks == clampWeeks(weeks)
        local        == meta.anchorStart - tzOffset
        ymd          == CivilFromDays(DayNumber(local))
        anchorDow    == getDay(meta.anchorStart, tzOffset)
        n            == Len(meta.recurringDays)
    IN  SortByStart(
          [k \in 1..(clampedWeeks * n) |->
              LET week   == (k - 1) \div n
                  dayNum == meta.recurringDays[((k - 1) % n) + 1]
                  start  == DateUTC(ymd[1], ymd[2] - 1,
                                    ymd[3] + DaysOffset(dayNum, anchorDow, week),
                                    (local % MinutesPerDay) \div 60,
                                    local % 60)
                            + tzOffset
              IN  [baseProposal EXCEPT !.start = start,
                                       !.end = start + meta.durationMinutes]])

\* isBatch of the card (line 789).
isBatch(message) ==
    IsSome(message.proposals) /\ Len(message.proposals[1]) > 1

\* proposalsToConfirm of the card (lines 817-822), the week selector left
\* as the card set it.
proposalsToConfirm(message, tzOffset) ==
    IF ~isBatch(message) THEN OrElse(message.proposals, << >>)
    ELSE LET meta == getRecurringSeriesMeta(message.proposals[1], tzOffset)
         IN  buildRecurringProposals(message.proposal[1], meta,
                                     clampWeeks(meta.weeks), tzOffset)

\* The event arguments the panel passes to the store for a proposal.
EventArgs(proposal) ==
    [title |-> proposal.title, start |-> proposal.start, end |-> proposal.end]

\* What the panel sends and what the extraction service answers, in a chat.
ChatRequests ==
    { r \in Requests :
        /\ r.message = << "gym", "today" >>
        /\ r.timezoneOffset = Some(480)
        /\ r.now = Monday1000
        /\ r.currentUserName = Some("Sam") }

ChatOutcomes ==
    { [kind |-> "throw", output |-> << >>, output_text |-> ""] }
    \cup { [kind |-> "output", output |-> << CreateEventCall(a) >>,
            output_text |-> ""] :
             a \in { BaseArgs,
                     [BaseArgs EXCEPT !.durationMinutes = 0],
                     [BaseArgs EXCEPT !.recurringDays = Some(<< 3 >>),
                                      !.recurringWeeks = Some(1)],
                     [BaseArgs EXCEPT !.recurringDays = Some(<< 5, 1 >>),
                                      !.recurringWeeks = Some(0)],
                     [BaseArgs EXCEPT !.recurringDays = Some(<< 5, 1 >>),
                                      !.recurringWeeks = Some(2)],
                     [BaseArgs EXCEPT !.recurringDays = Some(<< 6, 0, 3 >>),
                                      !.recurringWeeks = Some(MaxWeeks),
                                      !.startHour = 23,
                                      !.durationMinutes = 100],
                     [BaseArgs EXCEPT !.recurringDays = Some(<< 5, 1 >>),
                                      !.recurringWeeks = Some(1),
                                      !.durationMinutes = 10] } }

\* handleSend once processMessage has answered (lines 1210-1237): the
\* answer becomes an assistant message, pending when it proposes events.
handleSendCompletes ==
    /\ pc = "done"
    /\ card = "none"
    /\ outcome = "returned"
    /\ IsSome(response[1].proposal)
    /\ response[1].type \in {"create_event", "create_events"}
    /\ card' = "pending"
    /\ UNCHANGED << requests, inFlight >>
    /\ UNCHANGED engineVars
    /\ UNCHANGED workspaceVars
    /\ UNCHANGED storeVars

\* The Add button of a card that is no batch (lines 1112-1117), and
\* handleConfirm (lines 1257-1299).
handleConfirm ==
    /\ pc = "done"
    /\ card = "pending"
    /\ ~isBatch(response[1])
    /\ createEvent(EventArgs(response[1].proposal[1]))
    /\ card' = IF lastCall'.rejected THEN card ELSE "confirmed"
    /\ UNCHANGED << requests, inFlight >>

\* The Add button of a batch card (lines 1112-1117), and handleBatchConfirm
\* (lines 1301-1356).
handleBatchConfirm ==
    /\ pc = "done"
    /\ card = "pending"
    /\ isBatch(response[1])
    /\ LET sent == proposalsToConfirm(response[1],
                                      OrElse(request[1].timezoneOffset, 0))
       IN  batchCreateEvents([k \in 1..Len(sent) |-> EventArgs(sent[k])],
                             response[1].recurrenceId)
    /\ card' = IF lastCall'.rejected THEN card ELSE "confirmed"
    /\ UNCHANGED << requests, inFlight >>

\* handleSend up to the call of processMessage (lines 1170-1201): the user
\* sends a further message.
handleSendBegins ==
    /\ pc = "done"
    /\ requests < MaxFollowUps
    /\ requests' = requests + 1
    /\ pc' = "idle"
    /\ request' = None
    /\ response' = None
    /\ outcome' = "none"
    /\ remote' = None
    /\ remoteCalls' = 0
    /\ card' = "none"
    /\ UNCHANGED inFlight
    /\ UNCHANGED storeVars
    /\ UNCHANGED workspaceVars

NextChat ==
    \/ \E req \in ChatRequests : InvokeWithoutKey(req)
    \/ \E req \in ChatRequests : InvokeWithKey(req)
    \/ \E settled \in ChatOutcomes, rnd \in RandomSuffixes :
          RemoteSettles(settled, rnd)
    \/ handleSendCompletes
    \/ handleConfirm
    \/ handleBatchConfirm
    \/ handleSendBegins

SpecChat == Init /\ [][NextChat]_vars

----------------------------------------------------------------------------
(* The card of one proposal, click by click: a click on Add or Save calls
   createEvent and the handler awaits it; the card changes only when the
   call has completed (chat-panel.tsx lines 1257-1299 and 1358-1415).  The
   calls of one client reach the store in the order they were made. *)

TitleTea == << "Tea" >>

\* What the user changes on the form before Save: nothing, the title, or
\* the duration (lines 790-802 and 940-955).
TweakEdits ==
    { [title |-> None, duration |-> None],
      [title |-> Some(TitleTea), duration |-> None],
      [title |-> None, duration |-> Some(45)] }

\* The proposal Save builds from the form (lines 940-955): the date and the
\* time are the start on the browser's clock, read back in the same zone.
TweakedProposal(proposal, edit, tzOffset) ==
    LET local == proposal.start - tzOffset
        ymd   == CivilFromDays(DayNumber(local))
        start == DateUTC(ymd[1], ymd[2] - 1, ymd[3],
                         (local % MinutesPerDay) \div 60, local % 60)
                 + tzOffset
    IN  [proposal EXCEPT
            !.title = OrElse(edit.title, proposal.title),
            !.start = start,
            !.end   = start + OrElse(edit.duration,
                                     proposal.end - proposal.start)]

\* A click on Add or Save waits for the store: nothing on the card keeps a
\* second click from being made meanwhile.
CallCreateEvent(proposal) ==
    /\ calls + Len(inFlight) < MaxCalls
    /\ inFlight' = Append(inFlight, EventArgs(proposal))
    /\ UNCHANGED << card, requests >>
    /\ UNCHANGED engineVars
    /\ UNCHANGED storeVars
    /\ UNCHANGED workspaceVars

\* The Add button of a pending card (lines 1112-1117), and handleConfirm up
\* to its await (lines 1257-1276).
handleConfirmBegins ==
    /\ pc = "done"
    /\ card = "pending"
    /\ ~isBatch(response[1])
    /\ CallCreateEvent(response[1].proposal[1])

\* The Modify button (lines 1103-1110), and handleTweak (lines 1358-1364).
handleTweak ==
    /\ pc = "done"
    /\ card = "pending"
    /\ ~isBatch(response[1])
    /\ card' = "tweaking"
    /\ UNCHANGED << requests, inFlight >>
    /\ UNCHANGED engineVars
    /\ UNCHANGED storeVars
    /\ UNCHANGED workspaceVars

\* The Cancel button of the form (lines 933-938), and handleCancelTweak
\* (lines 1366-1372).
handleCancelTweak ==
    /\ pc = "done"
    /\ card = "tweaking"
    /\ card' = "pending"
    /\ UNCHANGED << requests, inFlight >>
    /\ UNCHANGED engineVars
    /\ UNCHANGED storeVars
    /\ UNCHANGED workspaceVars

\* The Save button of the form (lines 940-958), and handleSaveTweak up to
\* its await (lines 1374-1392).
handleSaveTweakBegins(edit) ==
    /\ pc = "done"
    /\ card = "tweaking"
    /\ CallCreateEvent(TweakedProposal(response[1].proposal[1], edit,
                                       OrElse(request[1].timezoneOffset, 0)))

\* The oldest call completes: the store runs createEvent, and the handler
\* that awaited it marks the card confirmed (lines 1278-1283 and
\* 1394-1400), or reports the failure and leaves the card as it is (lines
\* 1287-1296 and 1403-1412).
createEventSettles ==
    /\ inFlight # << >>
    /\ createEvent(Head(inFlight))
    /\ inFlight' = Tail(inFlight)
    /\ card' = IF lastCall'.rejected THEN card ELSE "confirmed"
    /\ UNCHANGED requests

NextCard ==
    \/ \E req \in ChatRequests : InvokeWithKey(req)
    \/ \E settled \in ChatOutcomes, rnd \in RandomSuffixes :
          RemoteSettles(settled, rnd)
    \/ handleSendCompletes
    \/ handleConfirmBegins
    \/ handleTweak
    \/ handleCancelTweak
    \/ \E edit \in TweakEdits : handleSaveTweakBegins(edit)
    \/ createEventSettles

SpecCard == Init /\ [][NextCard]_vars

----------------------------------------------------------------------------
(* The workspace-scoped store: unnamed/part_001 lines 243-1087, with the
   household mutations of convex/household.ts.  A mutation is a transaction:
   one that throws leaves every table as it was.  The metadata of an event
   (owner, participants, creator) is never read back and is left out. *)

ONBOARDING_WORKSPACE_NAME == "Rivera Household"

ONBOARDING_SHARED_CALENDAR_EXTERNAL_ID == << "onboarding-rivera-family-shared-v1" >>

ONBOARDING_ALEX_CALENDAR_EXTERNAL_ID == << "onboarding-rivera-alex-work-v1" >>

ONBOARDING_MIA_CALENDAR_EXTERNAL_ID == << "onboarding-rivera-mia-school-v1" >>

READ_ONLY_ROLES == {"child-view", "guest"}

\* Intl.DateTimeFormat().resolvedOptions().timeZone of the server.
ServerTimeZone == "UTC"

\* ctx.db.insert(table, doc): the id is the next of the table.
NewId(d, table) == d.ids[table] + 1

InsertDoc(d, table, doc) ==
    [d EXCEPT !.ids[table] = NewId(d, table),
              ![table] = [i \in DOMAIN d[table] \cup {NewId(d, table)} |->
                             IF i = NewId(d, table) THEN doc ELSE d[table][i]]]

\* ctx.db.insert(table, doc) of a list of documents, one after the other.
InsertDocs(d, table, docs) ==
    [d EXCEPT !.ids[table] = d.ids[table] + Len(docs),
              ![table] = [i \in DOMAIN d[table]
                               \cup ((d.ids[table] + 1)
                                     ..(d.ids[table] + Len(docs))) |->
                             IF i > d.ids[table] THEN docs[i - d.ids[table]]
                             ELSE d[table][i]]]

\* ctx.db.delete(id) of documents that exist.
DeleteDocs(d, table, ids) == [d EXCEPT ![table] = Without(d[table], ids)]

\* .first() of a query: the oldest document, << >> when there is none.
First(ids) == IF ids = {} THEN None ELSE Some(Min(ids))

getWorkspaceCalendars(d, workspaceId) ==
    {c \in DOMAIN d.calendars : d.calendars[c].workspaceId = workspaceId}

getWorkspaceMemberships(d, workspaceId) ==
    {m \in DOMAIN d.memberships : d.memberships[m].workspaceId = workspaceId}

getWorkspaceEventsNone(d, workspaceId) == {}

getWorkspaceEvents(d, workspaceId) ==
    {e \in DOMAIN d.events :
        d.events[e].calendarId \in getWorkspaceCalendars(d, workspaceId)}

\* getEventsOverlappingRange of the workspace (lines 310-333).
workspaceEventsOverlappingRange(d, workspaceId, rangeStart, rangeEnd) ==
    LET calendarIds == getWorkspaceCalendars(d, workspaceId)
        earliestRelevantStart == rangeStart - MAX_EVENT_DURATION_MS
        candidates ==
            IndexScan(d.events, {id \in DOMAIN d.events :
                                    /\ d.events[id].start >= earliestRelevantStart
                                    /\ d.events[id].start < rangeEnd})
        Kept(event) == /\ Gt(event.end, rangeStart)
                       /\ d.events[event.id].calendarId \in calendarIds
    IN  IF calendarIds = {} THEN << >>
        ELSE SortByStart(SelectSeq(candidates, Kept))

getMembershipForUser(d, workspaceId, userId) ==
    First({m \in getWorkspaceMemberships(d, workspaceId) :
              d.memberships[m].userId = userId})

assertMembershipOnly(d, workspaceId, actorUserId) ==
    IF getMembershipForUser(d, workspaceId, actorUserId) = None
    THEN Some("You are not a member of this household workspace.")
    ELSE None

\* assertWorkspaceWriteAccess: the error it throws, << >> when it returns.
assertWorkspaceWriteAccess(d, workspaceId, actorUserId) ==
    LET membership == getMembershipForUser(d, workspaceId, actorUserId)
    IN  IF membership = None
        THEN Some("You are not a member of this household workspace.")
        ELSE IF d.memberships[membership[1]].role \in READ_ONLY_ROLES
             THEN Some("Your role is read-only for calendar edits.")
        ELSE None

assertEventExists(d, eventId, workspaceId) ==
    IF eventId \notin DOMAIN d.events THEN Some("Event not found.") ELSE None

\* assertEventInWorkspace: the error it throws, << >> when it returns.
assertEventInWorkspace(d, eventId, workspaceId) ==
    IF eventId \notin DOMAIN d.events THEN Some("Event not found.")
    ELSE LET calendarId == d.events[eventId].calendarId
         IN  IF \/ calendarId \notin DOMAIN d.calendars
                \/ d.calendars[calendarId].workspaceId # workspaceId
             THEN Some("Event does not belong to this household workspace.")
             ELSE None

CalendarByExternalId(d, externalId) ==
    First({c \in DOMAIN d.calendars : d.calendars[c].externalId = externalId})

\* getOrCreatePrimaryCalendar: the tables after it and the calendar's id.
getOrCreatePrimaryCalendar(d, workspaceId) ==
    LET onboardingSharedCalendar ==
            CalendarByExternalId(d, ONBOARDING_SHARED_CALENDAR_EXTERNAL_ID)
        calendars == getWorkspaceCalendars(d, workspaceId)
    IN  IF /\ IsSome(onboardingSharedCalendar)
           /\ d.calendars[onboardingSharedCalendar[1]].workspaceId = workspaceId
        THEN [db |-> d, id |-> onboardingSharedCalendar[1]]
        ELSE IF calendars # {} THEN [db |-> d, id |-> Min(calendars)]
        ELSE [db |-> InsertDoc(d, "calendars",
                               [workspaceId |-> workspaceId,
                                externalId  |-> << "workspace", workspaceId,
                                                   "shared" >>,
                                name        |-> << "Family", "Shared" >>]),
              id |-> NewId(d, "calendars")]

EventDoc(calendarId, event, recurrenceId) ==
    [calendarId |-> calendarId,
     title      |-> event.title,
     start      |-> event.start,
     end        |-> event.end,
     recurrence |-> recurrenceId]

\* Promise.all of ctx.db.insert("events", ...) over a list of events: the
\* inserts are issued in the order of the list.
InsertEvents(d, calendarId, list, recurrenceId) ==
    InsertDocs(d, "events",
               [k \in 1..Len(list) |->
                   EventDoc(calendarId, list[k], recurrenceId)])

\* ensureUserByEmail: the tables after it and the user's id.
ensureUserByEmail(d, name, email, timezone) ==
    LET existing == First({u \in DOMAIN d.users : d.users[u].email = email})
    IN  IF IsSome(existing)
        THEN [db |-> IF \/ d.users[existing[1]].name # name
                        \/ d.users[existing[1]].timezone # timezone
                     THEN [d EXCEPT !.users[existing[1]].name = name,
                                    !.users[existing[1]].timezone = timezone]
                     ELSE d,
              id |-> existing[1]]
        ELSE [db |-> InsertDoc(d, "users", [name |-> name, email |-> email,
                                            timezone |-> timezone]),
              id |-> NewId(d, "users")]

\* ensureWorkspaceForOwner: the tables after it and the workspace's id.
ensureWorkspaceForOwner(d, ownerId) ==
    LET existing ==
            First({w \in DOMAIN d.workspaces :
                      /\ d.workspaces[w].ownerId = ownerId
                      /\ d.workspaces[w].name = ONBOARDING_WORKSPACE_NAME})
    IN  IF IsSome(existing) THEN [db |-> d, id |-> existing[1]]
        ELSE [db |-> InsertDoc(d, "workspaces",
                               [name    |-> ONBOARDING_WORKSPACE_NAME,
                                ownerId |-> ownerId]),
              id |-> NewId(d, "workspaces")]

\* ensureMembershipRole: existing are the existingMemberships, the
\* memberships of the workspace as the tables `snapshot` had them.
ensureMembershipRole(d, snapshot, existing, workspaceId, userId, role) ==
    LET existingMembership ==
            First({m \in existing : snapshot.memberships[m].userId = userId})
    IN  IF IsSome(existingMembership)
        THEN IF snapshot.memberships[existingMembership[1]].role # role
             THEN [d EXCEPT !.memberships[existingMembership[1]].role = role]
             ELSE d
        ELSE InsertDoc(d, "memberships",
                       [userId |-> userId, workspaceId |-> workspaceId,
                        role |-> role])

\* ensureCalendar: the tables after it and the calendar's id.
ensureCalendar(d, workspaceId, externalId, name) ==
    LET existing == CalendarByExternalId(d, externalId)
    IN  IF IsSome(existing)
        THEN [db |-> IF \/ d.calendars[existing[1]].workspaceId # workspaceId
                        \/ d.calendars[existing[1]].name # name
                     THEN [d EXCEPT
                             !.calendars[existing[1]].workspaceId = workspaceId,
                             !.calendars[existing[1]].name = name]
                     ELSE d,
              id |-> existing[1]]
        ELSE [db |-> InsertDoc(d, "calendars",
                               [workspaceId |-> workspaceId,
                                externalId  |-> externalId,
                                name        |-> name]),
              id |-> NewId(d, "calendars")]

\* getWeekStart (lines 266-271); the server's zone is UTC.
getWeekStart(now) == (DayNumber(now) - getUTCDay(now)) * MinutesPerDay

\* slot of ensureOnboardingSeedData (lines 647-661).
slot(title, weekStart, dayOffset, hour, minute, durationMinutes) ==
    [title |-> title,
     start |-> weekStart + dayOffset * MinutesPerDay + hour * 60 + minute,
     end   |-> weekStart + dayOffset * MinutesPerDay + hour * 60 + minute
               + durationMinutes]

\* The events of ensureOnboardingSeedData (lines 663-736), each with the
\* calendar it goes to: shared, alex or mia.
OnboardingEvents(now) ==
    LET weekStart == getWeekStart(now)
    IN  << [calendar |-> "shared",
            event |-> slot(<< "School", "drop-off" >>, weekStart, 1, 7, 20, 35)],
           [calendar |-> "alex",
            event |-> slot(<< "Product", "roadmap", "sync" >>, weekStart,
                           1, 9, 30, 60)],
           [calendar |-> "shared",
            event |-> slot(<< "Soccer", "practice", "pickup" >>, weekStart,
                           1, 17, 15, 75)],
           [calendar |-> "mia",
            event |-> slot(<< "Piano", "lesson" >>, weekStart, 2, 16, 0, 60)],
           [calendar |-> "shared",
            event |-> slot(<< "Fridge", "inventory", "check" >>, weekStart,
                           3, 19, 30, 30)],
           [calendar |-> "shared",
            event |-> slot(<< "Dentist", "appointment" >>, weekStart,
                           4, 14, 30, 60)],
           [calendar |-> "shared",
            event |-> slot(<< "Family", "week", "planning" >>, weekStart,
                           5, 18, 0, 45)],
           [calendar |-> "shared",
            event |-> slot(<< "Grocery", "restock", "run" >>, weekStart,
                           6, 10, 0, 90)] >>

InsertOnboardingEvents(d, calendarOf, list) ==
    InsertDocs(d, "events",
               [k \in 1..Len(list) |->
                   EventDoc(calendarOf[list[k].calendar], list[k].event,
                            None)])

\* ensureOnboardingSeedData (lines 567-765): the tables after it.
ensureOnboardingSeedData(d, now) ==
    LET zone   == "America/Los_Angeles"
        alex   == ensureUserByEmail(d, "Alex Rivera", << "alex", "@rivera.family" >>, zone)
        jordan == ensureUserByEmail(alex.db, "Jordan Rivera",
                                    << "jordan", "@rivera.family" >>, zone)
        mia    == ensureUserByEmail(jordan.db, "Mia Rivera",
                                    << "mia", "@rivera.family" >>, zone)
        nana   == ensureUserByEmail(mia.db, "Nana Rivera",
                                    << "nana", "@rivera.family" >>, zone)
        workspace == ensureWorkspaceForOwner(nana.db, alex.id)
        snapshot  == workspace.db
        existingMemberships == getWorkspaceMemberships(snapshot, workspace.id)
        m1 == ensureMembershipRole(snapshot, snapshot, existingMemberships,
                                   workspace.id, alex.id, "owner")
        m2 == ensureMembershipRole(m1, snapshot, existingMemberships,
                                   workspace.id, jordan.id, "adult")
        m3 == ensureMembershipRole(m2, snapshot, existingMemberships,
                                   workspace.id, mia.id, "child-view")
        m4 == ensureMembershipRole(m3, snapshot, existingMemberships,
                                   workspace.id, nana.id, "caregiver")
        sharedCalendar ==
            ensureCalendar(m4, workspace.id,
                           ONBOARDING_SHARED_CALENDAR_EXTERNAL_ID,
                           << "Family", "Shared" >>)
        alexCalendar ==
            ensureCalendar(sharedCalendar.db, workspace.id,
                           ONBOARDING_ALEX_CALENDAR_EXTERNAL_ID,
                           << "Alex", "-", "Work" >>)
        miaCalendar ==
            ensureCalendar(alexCalendar.db, workspace.id,
                           ONBOARDING_MIA_CALENDAR_EXTERNAL_ID,
                           << "Mia", "-", "School" >>)
        existingEvents == getWorkspaceEvents(miaCalendar.db, workspace.id)
        calendarOf == [shared |-> sharedCalendar.id, alex |-> alexCalendar.id,
                       mia |-> miaCalendar.id]
    IN  IF existingEvents = {}
        THEN InsertOnboardingEvents(miaCalendar.db, calendarOf,
                                    OnboardingEvents(now))
        ELSE miaCalendar.db

\* The e-mail address household.ts gives a member:
\* `${name.toLowerCase().replace(/\s+/g, ".")}@household.local`.
householdEmail(name) == << toLowerCase(name), "@household.local" >>

HouseholdUser(name) ==
    [name |-> name, email |-> householdEmail(name), timezone |-> ServerTimeZone]

RECURSIVE AddMembers(_, _, _)
AddMembers(d, workspaceId, names) ==
    IF names = << >> THEN d
    ELSE AddMembers(
             InsertDoc(InsertDoc(d, "users", HouseholdUser(Head(names))),
                       "memberships",
                       [userId |-> NewId(d, "users"),
                        workspaceId |-> workspaceId, role |-> "member"]),
             workspaceId, Tail(names))

\* setupHousehold (household.ts lines 51-127): the tables after it.
setupHouseholdData(d, householdName, members) ==
    IF DOMAIN d.workspaces # {} THEN d
    ELSE LET ownerId     == NewId(d, "users")
             workspaceId == NewId(d, "workspaces")
             d1 == InsertDoc(d, "users", HouseholdUser(members[1]))
             d2 == InsertDoc(d1, "workspaces",
                             [name |-> householdName, ownerId |-> ownerId])
             d3 == InsertDoc(d2, "memberships",
                             [userId |-> ownerId, workspaceId |-> workspaceId,
                              role |-> "owner"])
             d4 == InsertDoc(d3, "calendars",
                             [workspaceId |-> workspaceId,
                              externalId  |-> << "household", workspaceId >>,
                              name        |-> << householdName, "Calendar" >>])
         IN  AddMembers(d4, workspaceId, Tail(members))

\* The memberships removeMember finds by the index by_user.
MembershipsOfUser(d, userId) ==
    {m \in DOMAIN d.memberships : d.memberships[m].userId = userId}

----------------------------------------------------------------------------
(* The inputs of the workspace-scoped store *)

MaxWorkspaceCalls == 4

HouseholdInputs ==
    { [householdName |-> "Home", members |-> << "Pat" >>],
      [householdName |-> "Home", members |-> << "Pat", "Kim" >>] }

\* The users calls are made as, and made about: the owner of each household,
\* the child of the seeded household, and a user id that was never given out.
UserInputs(d) ==
    {u \in DOMAIN d.users :
        d.users[u].email \in {householdEmail("Pat"), << "alex", "@rivera.family" >>,
                              << "mia", "@rivera.family" >>}}
    \cup {NewId(d, "users")}

WorkspaceInputs(d) == DOMAIN d.workspaces

\* The events calls are made about: the oldest event of each workspace and an
\* event id that was never given out.
EventIdInputs(d) ==
    {Min(getWorkspaceEvents(d, w)) :
        w \in {x \in DOMAIN d.workspaces : getWorkspaceEvents(d, x) # {}}}
    \cup {NewId(d, "events")}

\* An event that passes validateEvent, and one whose end is its start.
WorkspaceEventInputs ==
    { [title |-> TitleSwim, start |-> WeekZero + 14 * 60,
       end |-> WeekZero + 15 * 60],
      [title |-> TitleSwim, start |-> WeekZero + 14 * 60,
       end |-> WeekZero + 14 * 60] }

WorkspaceBatchInputs ==
    { << SeriesEvent(0, 1), SeriesEvent(14, 1) >>,
      << SeriesEvent(0, 1), SeriesEvent(1, 0) >> }

WorkspaceSeedNows == {WeekZero + 10 * 60, WeekZero + WeekLength + 10 * 60}

WorkspaceCall(op, workspaceId, actorUserId, error, returned) ==
    [op |-> op, workspaceId |-> workspaceId, actorUserId |-> actorUserId,
     threw |-> IsSome(error), error |-> error, returned |-> returned]

----------------------------------------------------------------------------
(* The workspace-scoped store as a process: each action is one query or
   mutation, run as a transaction *)

\* The bookkeeping of one call: `after` are the tables when it returns.
WorkspaceStep(op, workspaceId, actorUserId, error, after, returned) ==
    /\ workspaceCalls < MaxWorkspaceCalls
    /\ workspaceCalls' = workspaceCalls + 1
    /\ db' = IF IsSome(error) THEN db ELSE after
    /\ lastWorkspaceCall' =
           WorkspaceCall(op, workspaceId, actorUserId, error,
                         IF IsSome(error) THEN {} ELSE returned)
    /\ UNCHANGED << engineVars, storeVars, chatVars >>

\* The first of two checks that fails.
FirstError(a, b) == IF IsSome(a) THEN a ELSE b

setupHousehold(householdName, members) ==
    WorkspaceStep("setupHousehold", 0, 0, None,
                  setupHouseholdData(db, householdName, members), {})

\* addMember (household.ts lines 129-159).
addMember(name) ==
    LET workspace == First(DOMAIN db.workspaces)
    IN  WorkspaceStep("addMember", 0, 0,
                      IF workspace = None
                      THEN Some("No household found. Set up a household first.")
                      ELSE None,
                      AddMembers(db, workspace[1], << name >>), {})

removeMemberUnguarded(userId) ==
    WorkspaceStep("removeMember", 0, userId,
                  IF userId \notin DOMAIN db.users
                  THEN Some("Delete on nonexistent document") ELSE None,
                  DeleteDocs(DeleteDocs(db, "memberships",
                                        MembershipsOfUser(db, userId)),
                             "users", {userId}),
                  {})

\* removeMember (household.ts lines 161-179).
removeMember(userId) ==
    LET memberships == MembershipsOfUser(db, userId)
        error ==
            IF \E m \in memberships : db.memberships[m].role = "owner"
            THEN Some("Cannot remove the household owner.")
            ELSE IF userId \notin DOMAIN db.users
                 THEN Some("Delete on nonexistent document")
            ELSE None
    IN  WorkspaceStep("removeMember", 0, userId, error,
                      DeleteDocs(DeleteDocs(db, "memberships", memberships),
                                 "users", {userId}),
                      {})

\* ensureOnboardingSeed (lines 848-864).
ensureOnboardingSeed(now) ==
    WorkspaceStep("ensureOnboardingSeed", 0, 0, None,
                  ensureOnboardingSeedData(db, now), {})

\* getWeekEvents of the workspace (lines 866-876).
workspaceGetWeekEvents(workspaceId, weekStart) ==
    LET found == workspaceEventsOverlappingRange(db, workspaceId, weekStart,
                                                 weekStart + WeekLength)
    IN  WorkspaceStep("getWeekEvents", workspaceId, 0, None, db,
                      {found[k].id : k \in 1..Len(found)})

\* createEvent of the workspace (lines 927-962).
workspaceCreateEvent(workspaceId, actorUserId, args) ==
    LET error == FirstError(validateEvent(args),
                            assertWorkspaceWriteAccess(db, workspaceId,
                                                       actorUserId))
        calendar == getOrCreatePrimaryCalendar(db, workspaceId)
    IN  WorkspaceStep("createEvent", workspaceId, actorUserId, error,
                      InsertDoc(calendar.db, "events",
                                EventDoc(calendar.id, args, None)),
                      {NewId(db, "events")})

\* updateEvent of the workspace (lines 964-987).
workspaceUpdateEvent(workspaceId, actorUserId, id, args) ==
    LET error ==
            FirstError(validateEvent(args),
                FirstError(assertWorkspaceWriteAccess(db, workspaceId,
                                                      actorUserId),
                           assertEventInWorkspace(db, id, workspaceId)))
    IN  WorkspaceStep("updateEvent", workspaceId, actorUserId, error,
                      [db EXCEPT !.events[id].title = args.title,
                                 !.events[id].start = args.start,
                                 !.events[id].end = args.end],
                      {id})

\* batchCreateEvents of the workspace (lines 989-1036).
workspaceBatchCreateEvents(workspaceId, actorUserId, list, recurrenceId) ==
    LET invalid == {k \in 1..Len(list) : IsSome(validateEvent(list[k]))}
        error ==
            FirstError(assertWorkspaceWriteAccess(db, workspaceId, actorUserId),
                       IF invalid = {} THEN None
                       ELSE validateEvent(list[Min(invalid)]))
        calendar == getOrCreatePrimaryCalendar(db, workspaceId)
    IN  WorkspaceStep("batchCreateEvents", workspaceId, actorUserId, error,
                      InsertEvents(calendar.db, calendar.id, list,
                                   Some(recurrenceId)),
                      (NewId(db, "events"))..(db.ids.events + Len(list)))

\* deleteEvent of the workspace (lines 1038-1049).
workspaceDeleteEvent(workspaceId, actorUserId, id) ==
    LET error ==
            FirstError(assertWorkspaceWriteAccess(db, workspaceId, actorUserId),
                       assertEventInWorkspace(db, id, workspaceId))
    IN  WorkspaceStep("deleteEvent", workspaceId, actorUserId, error,
                      DeleteDocs(db, "events", {id}), {id})

\* deleteRecurringEvents of the workspace (lines 1051-1078).
workspaceDeleteRecurringEvents(workspaceId, actorUserId, rid, fromStart) ==
    LET calendarIds == getWorkspaceCalendars(db, workspaceId)
        toDelete ==
            {e \in RecurringFrom(db.events, rid, fromStart) :
                db.events[e].calendarId \in calendarIds}
    IN  WorkspaceStep("deleteRecurringEvents", workspaceId, actorUserId,
                      assertWorkspaceWriteAccess(db, workspaceId, actorUserId),
                      DeleteDocs(db, "events", toDelete), toDelete)

NextWorkspace ==
    \/ \E h \in HouseholdInputs : setupHousehold(h.householdName, h.members)
    \/ addMember("Kim")
    \/ \E userId \in UserInputs(db) : removeMember(userId)
    \/ \E now \in WorkspaceSeedNows : ensureOnboardingSeed(now)
    \/ \E w \in WorkspaceInputs(db) : workspaceGetWeekEvents(w, WeekZero)
    \/ \E w \in WorkspaceInputs(db), actor \in UserInputs(db),
          args \in WorkspaceEventInputs :
          workspaceCreateEvent(w, actor, args)
    \/ \E w \in WorkspaceInputs(db), actor \in UserInputs(db),
          id \in EventIdInputs(db), args \in WorkspaceEventInputs :
          workspaceUpdateEvent(w, actor, id, args)
    \/ \E w \in WorkspaceInputs(db), actor \in UserInputs(db),
          list \in WorkspaceBatchInputs :
          workspaceBatchCreateEvents(w, actor, list, "recurring-1")
    \/ \E w \in WorkspaceInputs(db), actor \in UserInputs(db),
          id \in EventIdInputs(db) :
          workspaceDeleteEvent(w, actor, id)
    \/ \E w \in WorkspaceInputs(db), actor \in UserInputs(db) :
          workspaceDeleteRecurringEvents(w, actor, "recurring-1", WeekZero)

SpecWorkspace == Init /\ [][NextWorkspace]_vars

----------------------------------------------------------------------------
(* app/calendar/page.tsx: moving a stored event by dragging it on the week
   grid (lines 2088-2243).  The browser's zone is UTC, and a time of day
   is counted in minutes where the source counts hours. *)

\* Times of day the grid snaps the mouse to (snapToTimeIncrement).
DragTimes == {0, 60, 9 * 60, 12 * 60, 23 * 60}

\* The day columns the mouse is released over.
DropDays == {0, 1, 6}

\* The weeks the page shows: the one of the events, and the next.
WeekViews == {getWeekStart(WeekZero), getWeekStart(WeekZero) + WeekLength}

\* Events to drag: in the morning, just after midnight, across midnight,
\* and up to midnight.
DragEventInputs ==
    { [title |-> TitleSwim, start |-> WeekZero + 9 * 60,
       end |-> WeekZero + 10 * 60 + 15],
      [title |-> TitleSwim, start |-> WeekZero + 30, end |-> WeekZero + 90],
      [title |-> TitleSwim, start |-> WeekZero - 60, end |-> WeekZero + 60],
      [title |-> TitleSwim, start |-> WeekZero + 12 * 60,
       end |-> WeekZero + 24 * 60] }

\* date.getHours() + date.getMinutes() / 60 (lines 2108-2109).
getHoursAndMinutes(instant) == instant % MinutesPerDay

\* date.setHours(Math.floor(time), Math.round((time % 1) * 60), 0, 0) on
\* the midnight of a day: Math.floor rounds down, % keeps the sign of time.
setHours(midnight, time) ==
    midnight + (time \div 60) * 60
        + (IF time >= 0 THEN time % 60 ELSE 0 - ((0 - time) % 60))

\* The arguments of updateEvent after a move (lines 2218-2243).
MoveArgs(event, dragStartTime, dragCurrentInfo, currentWeekStart) ==
    LET timeDiff     == dragCurrentInfo.time - dragStartTime
        newStartTime == getHoursAndMinutes(event.start) + timeDiff
        newEndTime   == getHoursAndMinutes(event.end) + timeDiff
        newDate      == currentWeekStart
                        + dragCurrentInfo.dayIndex * MinutesPerDay
    IN  [title |-> event.title,
         start |-> setHours(newDate, newStartTime),
         end   |-> setHours(newDate, newEndTime)]

\* The event is on the grid of the week shown, and the mouse went down on
\* it, in the column of the day it starts: at or after its start, and
\* before its end or the end of that day.
Grabbed(id, currentWeekStart, dragStartTime) ==
    /\ id \in DOMAIN events
    /\ events[id].start < currentWeekStart + WeekLength
    /\ events[id].end > currentWeekStart
    /\ dragStartTime >= getHoursAndMinutes(events[id].start)
    /\ dragStartTime <= (IF DayNumber(events[id].end) = DayNumber(events[id].start)
                         THEN getHoursAndMinutes(events[id].end)
                         ELSE MinutesPerDay)

\* The drops of a drag: any column, any time the grid snaps to.
DropInputs == [dayIndex : DropDays, time : DragTimes]

\* handleEventMoveStart, handleMouseMove past the threshold, and
\* handleMouseUp in move mode (lines 2088-2243): the event is dropped and
\* updateEvent is called.
handleMouseUpMove(id, currentWeekStart, dragStartTime, dragCurrentInfo) ==
    /\ Grabbed(id, currentWeekStart, dragStartTime)
    /\ updateEvent(id, MoveArgs(events[id], dragStartTime, dragCurrentInfo,
                                currentWeekStart))
    /\ UNCHANGED chatVars

NextDrag ==
    \/ \E args \in DragEventInputs : createEvent(args) /\ UNCHANGED chatVars
    \/ \E id \in KnownIds, currentWeekStart \in WeekViews,
          dragStartTime \in DragTimes, dragCurrentInfo \in DropInputs :
          handleMouseUpMove(id, currentWeekStart, dragStartTime,
                            dragCurrentInfo)

SpecDrag == Init /\ [][NextDrag]_vars

----------------------------------------------------------------------------
(* The deterministic extractor on its own: regexFallback (ai.ts lines
   608-646) applied to an utterance *)

\* The utterances: an optional verb, what the event is, an optional clock
\* time (with am/pm, a bare hour, or hour and minutes without am/pm) and an
\* optional day; none has a time range.
ExtractorMessages ==
    { verb \o subject \o time \o day :
        verb    \in {<< >>, << "Add" >>, << "Schedule" >>},
        subject \in {<< "coffee" >>, << "coffee", "with", "george" >>,
                     << "workshop" >>, << "haircut" >>,
                     << "dentist", "appointment" >>},
        time    \in {<< >>, << "at", "2pm" >>, << "at", "3" >>,
                     << "at", "3:30" >>},
        day     \in {<< >>, << "tomorrow" >>, << "monday" >>,
                     << "friday" >>} }

ExtractorRequests ==
    { [message |-> m, now |-> n] :
        m \in ExtractorMessages, n \in {Monday1000, LateSunday} }

InitExtractor ==
    /\ pc = "idle"
    /\ request \in {Some(r) : r \in ExtractorRequests}
    /\ response = None
    /\ outcome = "none"
    /\ remote = None
    /\ remoteCalls = 0
    /\ events = << >>
    /\ tables = [users |-> 0, workspaces |-> 0, memberships |-> 0,
                 calendars |-> 0, events |-> 0]
    /\ calls = 0
    /\ lastCall = NoCall
    /\ originalStart = << >>
    /\ card = "none"
    /\ requests = 0
    /\ inFlight = << >>
    /\ db = EmptyDb
    /\ workspaceCalls = 0
    /\ lastWorkspaceCall = NoWorkspaceCall

\* const parsed = parseCommand(message) (line 613).
ParseCommandReturns ==
    /\ pc = "idle"
    /\ response' = Some([parsed |-> parseCommand(request[1].message,
                                                 request[1].now)])
    /\ pc' = "parsed"
    /\ UNCHANGED << request, outcome, remote, remoteCalls >>
    /\ UNCHANGED << storeVars, chatVars, workspaceVars >>

\* The rest of regexFallback (lines 615-645): it returns its result.
RegexFallbackReturns ==
    /\ pc = "parsed"
    /\ response' = Some(FallbackResult(response[1].parsed))
    /\ outcome' = "returned"
    /\ pc' = "done"
    /\ UNCHANGED << request, remote, remoteCalls >>
    /\ UNCHANGED << storeVars, chatVars, workspaceVars >>

NextExtractor ==
    \/ ParseCommandReturns
    \/ RegexFallbackReturns

SpecExtractor == InitExtractor /\ [][NextExtractor]_vars

----------------------------------------------------------------------------
(* Properties of processMessage *)

Answered == pc = "done" /\ IsSome(response)

IsCreate(resp) == resp.type \in {"create_event", "create_events"}

\* Every proposal a result carries: its proposal and the items of its list.
AllProposals(resp) ==
    (IF IsSome(resp.proposal) THEN {resp.proposal[1]} ELSE {})
    \cup (IF IsSome(resp.proposals)
          THEN {resp.proposals[1][i] : i \in 1..Len(resp.proposals[1])}
          ELSE {})

\* The arguments of the create_event call the handler acted on.
ActedArgs == remote[1].output[Min(CreateEventCalls(remote[1].output))].arguments[1]

ActedOnCall ==
    /\ Answered /\ IsSome(remote)
    /\ remote[1].kind = "output"
    /\ CreateEventCalls(remote[1].output) # {}
    /\ remote[1].output[Min(CreateEventCalls(remote[1].output))].parses

\* The remote call threw, or its first create_event call is not usable.
RemoteFailed ==
    /\ Answered /\ IsSome(remote)
    /\ \/ remote[1].kind = "throw"
       \/ /\ CreateEventCalls(remote[1].output) # {}
          /\ ~remote[1].output[Min(CreateEventCalls(remote[1].output))].parses

\* resp is what the regular-expression extractor alone yields for req.
IsDeterministicResult(resp, req) ==
    LET det == regexFallback(req.message, req.now)
    IN  IF det.success
        THEN /\ resp.type = "create_event"
             /\ IsSome(resp.proposal)
             /\ resp.proposal[1].title = det.event[1].title
             /\ resp.proposal[1].start = det.event[1].start
             /\ resp.proposal[1].end = det.event[1].end
        ELSE /\ resp.type = "message"
             /\ resp.message \notin {MsgRemoteError, MsgApiKeyMissing}

\* C1: every proposal of a create_event or create_events result has
\* end > start and a title that is not empty.
C1_ProposalsWellFormed ==
    (Answered /\ IsCreate(response[1]))
        => \A p \in AllProposals(response[1]) :
               p.end > p.start /\ Len(p.title) > 0

\* C2: when the remote call throws or returns an unusable response, the
\* caller receives what the deterministic extractor yields for the message,
\* and never the error message of the remote failure.
C2_RemoteFailureFallsBack ==
    RemoteFailed
        => /\ response[1].message # MsgRemoteError
           /\ IsDeterministicResult(response[1], request[1])

\* C3: without OPENAI_API_KEY the caller receives what the deterministic
\* extractor yields for the message, and no response that says the backend
\* is not configured.
C3_NoKeyFallsBack ==
    (Answered /\ ~request[1].apiKey)
        => /\ response[1].message # MsgApiKeyMissing
           /\ IsDeterministicResult(response[1], request[1])

\* C4: whatever the remote call settles to, the handler completes, it never
\* throws, and it returns one result of type message, create_event or
\* create_events.
C4_AlwaysReturnsOneResult ==
    /\ outcome # "threw"
    /\ pc = "awaiting"
           => ENABLED (\E settled \in RemoteOutcomes, rnd \in RandomSuffixes :
                          RemoteSettles(settled, rnd))
    /\ pc = "done"
           => /\ outcome = "returned"
              /\ Len(response) = 1
              /\ response[1].type \in {"message", "create_event", "create_events"}

C4_Witness ==
    /\ RemoteFailed
    /\ outcome = "returned"
    /\ response[1].type = "message"

\* The request of a series: weekdays without repeats, at least one week.
SeriesWeeks == OrElse(ActedArgs.recurringWeeks, RECURRING_WEEKS)

SeriesDays == {ActedArgs.recurringDays[1][i] :
                   i \in 1..Len(ActedArgs.recurringDays[1])}

IsSeriesRequest ==
    /\ ActedOnCall
    /\ response[1].type = "create_events"
    /\ SeriesDays \subseteq 0..6
    /\ Cardinality(SeriesDays) = Len(ActedArgs.recurringDays[1])
    /\ SeriesWeeks >= 1

\* The day the series is anchored on, as a day number of the user's calendar.
AnchorDay ==
    LET req == request[1]
        ymd == OrElse(inferRelativeDateFromMessage(req.message,
                          getUserLocalNow(req.now, OrElse(req.timezoneOffset, 0))),
                      ActedArgs.date)
    IN  DaysFromCivil(ymd[1], ymd[2], ymd[3])

\* The user's wall clock at an instant.
LocalInstant(instant) == instant - OrElse(request[1].timezoneOffset, 0)

\* C6: a series over weekday set D and W >= 1 weeks has W * |D| occurrences,
\* exactly one for every pair of a week and a weekday, in ascending start
\* order.
C6_OneOccurrencePerWeekAndDay ==
    IsSeriesRequest
        => LET list == response[1].proposals[1]
           IN  /\ Len(list) = SeriesWeeks * Cardinality(SeriesDays)
               /\ \A w \in 0..(SeriesWeeks - 1), d \in SeriesDays :
                      Cardinality(
                        {i \in 1..Len(list) :
                            /\ getUTCDay(LocalInstant(list[i].start)) = d
                            /\ (DayNumber(LocalInstant(list[i].start))
                                   - AnchorDay) \div 7 = w}) = 1
               /\ \A i \in 1..(Len(list) - 1) : list[i].start < list[i + 1].start

C6_Witness ==
    /\ IsSeriesRequest
    /\ ActedArgs.recurringDays[1] = << 5, 1 >>
    /\ SeriesWeeks = 2
    /\ Len(response[1].proposals[1]) = 4

\* C7: a series whose week count is 0 or negative is expanded as one week,
\* and no create_events result has an empty list of proposals.
C7_SeriesNeverEmpty ==
    (ActedOnCall /\ response[1].type = "create_events")
        => /\ Len(response[1].proposals[1]) >= 1
           /\ SeriesWeeks <= 0
                  => Len(response[1].proposals[1])
                         = Len(ActedArgs.recurringDays[1])

\* The names of the roster, and the assigned names found in it.
RosterOf(req) == OrElse(req.householdMembers, << >>)

AssignedInRoster ==
    {i \in 1..Len(OrElse(ActedArgs.assignedMembers, << >>)) :
        \E k \in 1..Len(RosterOf(request[1])) :
            toLowerCase(RosterOf(request[1])[k].name)
                = toLowerCase(ActedArgs.assignedMembers[1][i])}

\* The roster entries that carry the current user's name.
CurrentUserEntries ==
    {k \in 1..Len(RosterOf(request[1])) :
        /\ IsSome(request[1].currentUserName)
        /\ RosterOf(request[1])[k].name = request[1].currentUserName[1]}

----------------------------------------------------------------------------
(* Properties of the event store *)

\* C5: after any sequence of mutations every stored event has a title that
\* is not empty once trimmed, end > start and end - start within 24 hours.
C5_StoredEventsValid ==
    \A id \in DOMAIN events :
        /\ trim(events[id].title) # << >>
        /\ Gt(events[id].end, events[id].start)
        /\ Le(Minus(events[id].end, events[id].start), MAX_EVENT_DURATION_MS)

\* What a call of deleteRecurringEvents leaves when it deletes the ids.
DeletesExactly(ids) ==
    /\ DOMAIN events' = DOMAIN events \ ids
    /\ \A id \in DOMAIN events' : events'[id] = events[id]

\* C9 as stated: deleteRecurringEvents deletes exactly the events of the
\* batch whose original start, the start they were inserted with, is at or
\* after fromStart, and leaves every other event.
C9_DeletesByOriginalStart ==
    [][\A rid \in RecurrenceIds, fromStart \in Instants :
          deleteRecurringEvents(rid, fromStart)
              => DeletesExactly({id \in DOMAIN events :
                                    /\ events[id].recurrence = Some(rid)
                                    /\ originalStart[id] >= fromStart})]_vars

\* C9: deleteRecurringEvents deletes exactly the events of the batch whose
\* stored start, as the last updateEvent left it, is at or after fromStart,
\* and leaves every other event.
C9_DeletesByStoredStart ==
    [][\A rid \in RecurrenceIds, fromStart \in Instants :
          deleteRecurringEvents(rid, fromStart)
              => DeletesExactly({id \in DOMAIN events :
                                    /\ events[id].recurrence = Some(rid)
                                    /\ events[id].start >= fromStart})]_vars

\* A call deleted an event of the batch that updateEvent had moved from
\* before fromStart to it or past it, and kept another event of the batch.
C9_Witness ==
    /\ lastCall.op = "deleteRecurringEvents"
    /\ \E id \in lastCall.deleted : originalStart[id] < lastCall.fromStart[1]
    /\ \E id \in DOMAIN events : events[id].recurrence = lastCall.recurrenceId

\* The stored events that overlap the week that begins at weekStart.
OverlapsWeek(id, weekStart) ==
    /\ Lt(events[id].start, weekStart + WeekLength)
    /\ Gt(events[id].end, weekStart)

\* C10: getWeekEvents(weekStart) returns every stored event that overlaps
\* [weekStart, weekStart + 7 days) once, no other event, in ascending start
\* order.
C10_WeekEventsAreTheOverlapping ==
    \A weekStart \in WeekStarts :
        LET result == getWeekEvents(events, weekStart)
        IN  /\ \A k \in 1..Len(result) :
                   /\ result[k].id \in DOMAIN events
                   /\ result[k] = Doc(events, result[k].id)
                   /\ OverlapsWeek(result[k].id, weekStart)
            /\ \A id \in DOMAIN events :
                   OverlapsWeek(id, weekStart)
                       => Cardinality({k \in 1..Len(result) :
                                          result[k].id = id}) = 1
            /\ \A k \in 1..(Len(result) - 1) :
                   result[k].start <= result[k + 1].start

\* A week whose events include one that started before it, next to stored
\* events that lie outside it.
C10_Witness ==
    /\ getWeekEvents(events, WeekZero) # << >>
    /\ \E k \in 1..Len(getWeekEvents(events, WeekZero)) :
           getWeekEvents(events, WeekZero)[k].start < WeekZero
    /\ \E id \in DOMAIN events : ~OverlapsWeek(id, WeekZero)
    /\ Len(getWeekEvents(events, WeekZero)) >= 2

----------------------------------------------------------------------------
(* Properties of the chat panel with the store *)

----------------------------------------------------------------------------
(* Properties of processMessage: zones, order, members, remote calls *)

TzOf(req) == OrElse(req.timezoneOffset, 0)

\* The day the result is dated, when the caller's clock is the given one:
\* the day after the caller's today for "tomorrow", the caller's today for
\* "today" and "tonight", else the date the extractor returned.
ExtractedDay(callerNow) ==
    IF HasWord(request[1].message, "tomorrow") THEN DayNumber(callerNow) + 1
    ELSE IF HasWord(request[1].message, "today")
            \/ HasWord(request[1].message, "tonight")
         THEN DayNumber(callerNow)
    ELSE DaysFromCivil(ActedArgs.date[1], ActedArgs.date[2], ActedArgs.date[3])

\* Every proposal starts when a clock that is shift minutes ahead of UTC
\* reads the extracted date (from it on, for a series), hour and minute.
StartsReadOnClock(shift) ==
    \A p \in AllProposals(response[1]) :
        /\ (p.start + shift) % MinutesPerDay
               = ActedArgs.startHour * 60 + ActedArgs.startMinute
        /\ IF response[1].type = "create_event"
           THEN DayNumber(p.start + shift)
                    = ExtractedDay(request[1].now + shift)
           ELSE DayNumber(p.start + shift)
                    >= ExtractedDay(request[1].now + shift)

\* C12 as stated: the caller's local now is UTC now plus timezoneOffset, and
\* every proposal starts when that local clock reads the extracted date,
\* hour and minute.
C12_OffsetIsAdded ==
    (ActedOnCall /\ IsCreate(response[1]))
        => StartsReadOnClock(TzOf(request[1]))

\* C12: the caller's local now is UTC now minus timezoneOffset, and every
\* proposal starts when that local clock reads the extracted date, hour and
\* minute.
C12_OffsetIsSubtracted ==
    (ActedOnCall /\ IsCreate(response[1]))
        => StartsReadOnClock(0 - TzOf(request[1]))

\* West of UTC late on a Sunday, when UTC is already at Monday: the event
\* asked for today starts on the caller's Sunday.
C12_Witness ==
    /\ ActedOnCall
    /\ response[1].type = "create_event"
    /\ request[1].timezoneOffset = Some(480)
    /\ request[1].now = LateSunday
    /\ request[1].message = << "gym", "today" >>
    /\ getUTCDay(response[1].proposal[1].start - 480) = 0

----------------------------------------------------------------------------
(* Properties of the workspace-scoped store *)

WriteOperations ==
    {"createEvent", "updateEvent", "batchCreateEvents", "deleteEvent",
     "deleteRecurringEvents"}

\* The actor has no membership of the workspace, or one whose role is
\* child-view or guest.
Barred(d, workspaceId, actorUserId) ==
    LET own == {m \in DOMAIN d.memberships :
                   /\ d.memberships[m].workspaceId = workspaceId
                   /\ d.memberships[m].userId = actorUserId}
    IN  \/ own = {}
        \/ \E m \in own : d.memberships[m].role \in {"child-view", "guest"}

\* C13: a createEvent, updateEvent, batchCreateEvents, deleteEvent or
\* deleteRecurringEvents call of the workspace-scoped store whose actor is no
\* member of the workspace, or is one with the role child-view or guest,
\* fails and leaves the events table as it was.
C13_BarredActorsCannotWrite ==
    [][(/\ workspaceCalls' # workspaceCalls
        /\ lastWorkspaceCall'.op \in WriteOperations
        /\ Barred(db, lastWorkspaceCall'.workspaceId,
                  lastWorkspaceCall'.actorUserId))
          => /\ lastWorkspaceCall'.threw
             /\ db'.events = db.events]_vars

\* A member with the role child-view was refused an edit of a workspace
\* that has events.
C13_Witness ==
    /\ lastWorkspaceCall.op \in WriteOperations
    /\ lastWorkspaceCall.error
           = Some("Your role is read-only for calendar edits.")
    /\ \E m \in DOMAIN db.memberships :
           /\ db.memberships[m].userId = lastWorkspaceCall.actorUserId
           /\ db.memberships[m].workspaceId = lastWorkspaceCall.workspaceId
           /\ db.memberships[m].role = "child-view"
    /\ getWorkspaceEvents(db, lastWorkspaceCall.workspaceId) # {}

\* The workspace of the calendar an event is on.
WorkspaceOfEvent(d, e) == d.calendars[d.events[e].calendarId].workspaceId

\* The events a step changed or deleted.
Touched ==
    {e \in DOMAIN db.events :
        \/ e \notin DOMAIN db'.events
        \/ db'.events[e] # db.events[e]}

\* C14: with two or more workspaces, a call of the workspace-scoped store
\* made for workspace W returns, changes and deletes only events whose
\* calendar belongs to W.
C14_CallsStayInsideTheirWorkspace ==
    [][(/\ workspaceCalls' # workspaceCalls
        /\ lastWorkspaceCall'.workspaceId \in DOMAIN db.workspaces
        /\ Cardinality(DOMAIN db.workspaces) >= 2)
          => \A e \in Touched \cup (lastWorkspaceCall'.returned
                                       \cap DOMAIN db.events) :
                 WorkspaceOfEvent(db, e) = lastWorkspaceCall'.workspaceId]_vars

\* getWeekEvents returned events of its workspace while another workspace
\* had an event of the same week.
C14_Witness ==
    /\ Cardinality(DOMAIN db.workspaces) = 2
    /\ lastWorkspaceCall.op = "getWeekEvents"
    /\ lastWorkspaceCall.returned # {}
    /\ \E e \in DOMAIN db.events \ lastWorkspaceCall.returned :
           /\ WorkspaceOfEvent(db, e) # lastWorkspaceCall.workspaceId
           /\ db.events[e].start >= WeekZero
           /\ db.events[e].start < WeekZero + WeekLength

\* The five tables the onboarding seed writes.
Tables(d) == << d.users, d.workspaces, d.memberships, d.calendars, d.events >>

\* C15: from every state of the store, running ensureOnboardingSeed twice
\* in a row leaves the same users, workspaces, memberships, calendars and
\* events as running it once, whatever the time of either run.
C15_SeedIsIdempotent ==
    \A first \in WorkspaceSeedNows, second \in WorkspaceSeedNows :
        Tables(ensureOnboardingSeedData(ensureOnboardingSeedData(db, first),
                                        second))
            = Tables(ensureOnboardingSeedData(db, first))

\* The seed ran beside an older household and after a seeded member was
\* removed, and a further run a week later changes nothing.
C15_Witness ==
    /\ lastWorkspaceCall.op = "ensureOnboardingSeed"
    /\ Cardinality(DOMAIN db.workspaces) = 2
    /\ db.ids.users > Cardinality(DOMAIN db.users)
    /\ Cardinality(getWorkspaceEvents(db, Min(DOMAIN db.workspaces) + 1)) = 8
    /\ Tables(ensureOnboardingSeedData(db, WeekZero + WeekLength + 10 * 60))
           = Tables(db)

----------------------------------------------------------------------------
(* Properties of processMessage: the expansion of a series *)

\* The (start, end) pairs of a list of proposals, in its order.
Pairs(list) == [i \in 1..Len(list) |-> << list[i].start, list[i].end >>]

\* The orderings of a list of weekdays without repeats.
Orderings(days) ==
    {p \in [1..Len(days) -> {days[i] : i \in 1..Len(days)}] :
        \A i \in 1..Len(days) : \E j \in 1..Len(days) : p[j] = days[i]}

\* The handler acted on a create_event call that names weekdays, none twice.
IsWeekdaySetRequest ==
    /\ ActedOnCall
    /\ response[1].type = "create_events"
    /\ Cardinality(SeriesDays) = Len(ActedArgs.recurringDays[1])

\* C16: for the same anchor date, start time, duration and week count, every
\* ordering of the same weekday set expands to the same list of
\* (start, end) pairs.
C16_ExpansionIgnoresWeekdayOrder ==
    IsWeekdaySetRequest
        => \A p \in Orderings(ActedArgs.recurringDays[1]) :
               Pairs(HandleCreateEvent(
                         request[1],
                         [ActedArgs EXCEPT !.recurringDays = Some(p)],
                         "k3x9qa").proposals[1])
                   = Pairs(response[1].proposals[1])

\* Three weekdays given out of order, two weeks: six occurrences, and the
\* order of the loops is not the order of the starts.
C16_Witness ==
    /\ IsWeekdaySetRequest
    /\ ActedArgs.recurringDays[1] = << 6, 0, 3 >>
    /\ SeriesWeeks = 2
    /\ Len(response[1].proposals[1]) = 6
    /\ LET req == request[1]
           tz  == OrElse(req.timezoneOffset, 0)
           ymd == OrElse(inferRelativeDateFromMessage(
                             req.message, getUserLocalNow(req.now, tz)),
                         ActedArgs.date)
       IN  Pairs(ExpandRecurring(ActedArgs, ymd, 2, tz, << >>))
               # Pairs(response[1].proposals[1])

\* C17: in every create_events result, proposal is the first element of
\* proposals, and that element is the occurrence of the batch with the
\* earliest start.
C17_ProposalIsEarliestOccurrence ==
    (Answered /\ response[1].type = "create_events")
        => LET list == response[1].proposals[1]
           IN  /\ Len(list) >= 1
               /\ response[1].proposal = Some(list[1])
               /\ \A i \in 1..Len(list) : list[1].start <= list[i].start

----------------------------------------------------------------------------
(* Properties of processMessage: members and attendees *)

\* The assigned names that match no roster name, whatever the case.
UnmatchedAssigned ==
    {ActedArgs.assignedMembers[1][i] :
        i \in (1..Len(OrElse(ActedArgs.assignedMembers, << >>)))
                  \ AssignedInRoster}

\* The member ids owed to the assigned names found in the roster, or to the
\* fallback when none is found and there is a roster.
OwedMemberIds ==
    IF AssignedInRoster # {} THEN Cardinality(AssignedInRoster)
    ELSE IF Len(RosterOf(request[1])) > 0 THEN 1
    ELSE 0

\* C18: an assigned name that matches no roster name adds no member id to a
\* returned proposal, and is kept in the proposal's attendees.
C18_UnmatchedNamesBecomeAttendees ==
    (ActedOnCall /\ IsCreate(response[1]))
        => \A p \in AllProposals(response[1]) :
               /\ Len(OrElse(p.memberIds, << >>)) = OwedMemberIds
               /\ \A name \in UnmatchedAssigned :
                      \E k \in 1..Len(OrElse(p.attendees, << >>)) :
                          p.attendees[1][k] = name

----------------------------------------------------------------------------
(* Properties of processMessage: the remote extraction service *)

----------------------------------------------------------------------------
(* Properties of the deterministic extractor *)

\* The words the duration rules of the extraction engine look for.
DurationKeywords ==
    {"coffee", "lunch", "drinks", "meeting", "sync", "standup", "1:1",
     "one-on-one", "dinner", "movie", "workout", "gym", "run", "dentist",
     "doctor", "appointment", "quick", "workshop", "training", "preschool",
     "school", "daycare", "camp"}

\* The deterministic extractor made an event of the utterance.
Extracted == pc = "done" /\ IsSome(response) /\ response[1].success

ExtractedDuration == response[1].event[1].end - response[1].event[1].start

\* C20: in the deterministic path an utterance without a time range gets a
\* duration of 30 minutes when it contains "coffee", of 120 minutes when it
\* contains "workshop", and of 60 minutes when it contains no duration
\* keyword.
C20_DurationFollowsKeyword ==
    Extracted
        => LET message == request[1].message
           IN  /\ HasWord(message, "coffee") => ExtractedDuration = 30
               /\ HasWord(message, "workshop") => ExtractedDuration = 120
               /\ (\A k \in DurationKeywords : ~HasWord(message, k))
                      => ExtractedDuration = 60

ExtractedStart == response[1].event[1].start

\* The hours an utterance gives as a number with no am/pm after it.
BareHours(message) ==
    {ClockOf(message[i])[1].hour :
        i \in {j \in 1..Len(message) : /\ IsSome(ClockOf(message[j]))
                                       /\ MeridiemAt(message, j) = ""}}

\* C21: in the deterministic path a start hour given as a number from 1 to
\* 6 with no am/pm marker is read as PM: the event starts at that hour
\* plus 12.
C21_BareHourBelowSevenIsPM ==
    Extracted
        => \A hour \in BareHours(request[1].message) \cap 1..6 :
              (ExtractedStart % MinutesPerDay) \div 60 = hour + 12

\* The weekdays (0 = Sunday) an utterance names in full.
NamedWeekdays(message) ==
    {d \in 0..6 : \E i \in 1..Len(message) :
                     WeekdayIn(toLowerCase(message[i])) = Some(d)}

\* The day a weekday stands for, counted from the reference time: that very
\* day while the requested time of day is still ahead, a week later once it
\* has passed, and otherwise the first such weekday of the six days after.
NextOccurrence(targetDay, timeOfDay, now) ==
    LET today == DayNumber(now)
    IN  IF targetDay = getUTCDay(now)
        THEN IF timeOfDay > now % MinutesPerDay THEN today ELSE today + 7
        ELSE today + ((targetDay - getUTCDay(now) + 7) % 7)

\* C22: in the deterministic path a full weekday name resolves to the next
\* occurrence of that weekday from the reference time: the reference day
\* itself when it is that weekday and the requested time is still ahead,
\* seven days later when that time has passed, and otherwise the first such
\* day of the following six.
C22_WeekdayIsNextOccurrence ==
    (/\ Extracted
     /\ NamedWeekdays(request[1].message) # {}
     /\ ~HasWord(request[1].message, "tomorrow"))
        => DayNumber(ExtractedStart)
             = NextOccurrence(Min(NamedWeekdays(request[1].message)),
                              ExtractedStart % MinutesPerDay,
                              request[1].now)

\* The three cues of an event-creation request: the utterance starts with
\* an action verb, it contains an event keyword, or it contains both a day
\* and a clock time.
StartsWithActionVerb(message) ==
    \/ (Len(message) >= 1 /\ StartsWithVerb(message[1]))
    \/ (Len(message) >= 2 /\ toLowerCase(message[1]) = "set"
        /\ toLowerCase(message[2]) = "up")

HasEventKeyword(message) ==
    \E i \in 1..Len(message) : ContainsCreateKeyword(message[i])

HasDayAndTime(message) ==
    /\ \/ NamedWeekdays(message) # {}
       \/ HasWord(message, "tomorrow")
       \/ HasWord(message, "today")
    /\ \E i \in 1..Len(message) : IsSome(ClockOf(message[i]))

\* C23: the deterministic classifier answers with an informational message
\* and no proposal exactly when the utterance neither starts with an action
\* verb, nor contains an event keyword, nor contains both a day and a clock
\* time.
C23_InformationalIffNoCue ==
    (pc = "done" /\ IsSome(response))
        => LET message == request[1].message
           IN  (~response[1].success /\ response[1].event = None)
                   <=> ~(\/ StartsWithActionVerb(message)
                         \/ HasEventKeyword(message)
                         \/ HasDayAndTime(message))

\* The part of C23 the classifier keeps: an utterance that starts with an
\* action verb or contains an event keyword becomes an event, and one with
\* neither cue gets the informational message.
C23_VerbOrKeywordDecides ==
    (pc = "done" /\ IsSome(response))
        => LET message == request[1].message
           IN  response[1].success
                   <=> (StartsWithActionVerb(message) \/ HasEventKeyword(message))

----------------------------------------------------------------------------
(* Properties of the occurrences of a series *)

\* The week counts the card's selector can hold (clampWeeks, line 1091).
SelectorWeeks == MIN_RECURRING_WEEKS..(MaxWeeks + 1)

\* Every start of the list is on a weekday of days and on one of the
\* 7 * weeks days that begin with anchorDay, on the user's calendar.
OccurrencesWithin(list, days, anchorDay, weeks) ==
    \A i \in 1..Len(list) :
        /\ getUTCDay(LocalInstant(list[i].start)) \in days
        /\ DayNumber(LocalInstant(list[i].start)) >= anchorDay
        /\ DayNumber(LocalInstant(list[i].start)) < anchorDay + 7 * weeks

IsWeekdaySeries ==
    /\ ActedOnCall
    /\ response[1].type = "create_events"
    /\ SeriesDays \subseteq 0..6

\* C24: for every anchor date, set D of weekdays (0..6) and week count W,
\* every occurrence generated falls on a weekday of D, on or after the
\* anchor date and before the anchor date plus 7 * W days; this holds of
\* the series processMessage returns and of the series the card rebuilds
\* from it for every week count of its selector.
C24_OccurrencesInsideTheSeries ==
    IsWeekdaySeries
        => LET list == response[1].proposals[1]
               tz   == OrElse(request[1].timezoneOffset, 0)
           IN  /\ OccurrencesWithin(list, SeriesDays, AnchorDay, SeriesWeeks)
               /\ list # << >>
                      => LET meta == getRecurringSeriesMeta(list, tz)
                         IN  \A weeks \in SelectorWeeks :
                                OccurrencesWithin(
                                    buildRecurringProposals(
                                        response[1].proposal[1], meta, weeks, tz),
                                    SeriesDays,
                                    DayNumber(LocalInstant(meta.anchorStart)),
                                    weeks)

\* A series of three weekdays over two weeks, anchored on a Wednesday and
\* starting late in the evening of a zone behind UTC.
C24_Witness ==
    /\ IsWeekdaySeries
    /\ ActedArgs.recurringDays[1] = << 6, 0, 3 >>
    /\ ActedArgs.date = << 2024, 2, 28 >>
    /\ ActedArgs.startHour = 23
    /\ request[1].timezoneOffset = Some(480)
    /\ SeriesWeeks = 2
    /\ Len(response[1].proposals[1]) = 6

----------------------------------------------------------------------------
(* Properties of the event store: calls that fail validation *)

FailsValidation(args) == IsSome(validateEvent(args))

\* The inputs of the three mutations that validateEvent refuses.
InvalidEventInputs == {args \in EventInputs : FailsValidation(args)}

InvalidUpdateInputs == {args \in UpdateInputs : FailsValidation(args)}

InvalidBatchInputs ==
    {list \in BatchInputs : \E i \in 1..Len(list) : FailsValidation(list[i])}

\* C25: a createEvent, updateEvent or batchCreateEvents call that fails
\* validation leaves every table as it was: no event is inserted or patched
\* and no default user, workspace or calendar is created; one invalid
\* element of a batch keeps every element of the batch out.  Stated of a
\* step: one that changes a table is none of these calls with arguments
\* that fail validation.
C25_FailedValidationChangesNothing ==
    [][(events' # events \/ tables' # tables)
          => /\ \A args \in InvalidEventInputs : ~createEvent(args)
             /\ \A id \in KnownIds, args \in InvalidUpdateInputs :
                   ~updateEvent(id, args)
             /\ \A list \in InvalidBatchInputs,
                   rid \in {None} \cup {Some(r) : r \in RecurrenceIds} :
                   ~batchCreateEvents(list, rid)]_vars

\* On a new deployment a batch with a valid and an invalid element was
\* refused, and then an update with a blank title of a stored event.
C25_Witness ==
    /\ lastCall = Rejected("updateEvent")
    /\ calls = 3
    /\ DOMAIN events = {1}
    /\ tables.events = 1
    /\ tables.calendars = 1

----------------------------------------------------------------------------
(* Properties of the card of one proposal *)

\* C26: for one proposal card, under every interleaving of clicks on Add,
\* Modify, Save and Cancel with the completions of createEvent, the
\* proposal is persisted at most once: the store never holds two events
\* of the card.
C26_PersistedAtMostOnce == Cardinality(DOMAIN events) <= 1

\* The part of C26 the card keeps: once a call has completed and the card
\* shows "added", no further call is made from it.
C26_NoCallFromConfirmedCard ==
    [][card = "confirmed" => Len(inFlight') <= Len(inFlight)]_vars

----------------------------------------------------------------------------
(* Properties of the chat panel: the batch the card sends *)

\* The step in which a batch card was confirmed and its events were stored.
BatchConfirmed ==
    /\ card = "pending"
    /\ card' = "confirmed"
    /\ lastCall'.op = "batchCreateEvents"

\* The (start, end) pairs of the events a step stored, in the order sent.
StoredPairs ==
    [k \in 1..(tables'.events - tables.events) |->
        << events'[tables.events + k].start, events'[tables.events + k].end >>]

\* C27: when the user confirms a batch without changing the week selector,
\* the events sent to batchCreateEvents have the same count and the same
\* (start, end) pairs as the proposals processMessage returned, for every
\* weekday set, week count and duration the engine can return.
C27_BatchSentAsProposed ==
    [][BatchConfirmed => StoredPairs = Pairs(response[1].proposals[1])]_vars

\* The part of C27 the card keeps: the count and the starts are those of
\* the proposals, and so are the ends when the proposals last a quarter of
\* an hour or more.
C27_BatchSentAsProposedFromQuarterHour ==
    (/\ pc = "done" /\ outcome = "returned" /\ IsSome(response)
     /\ response[1].type = "create_events"
     /\ isBatch(response[1])
     /\ SeriesDays \subseteq 0..6
     /\ Cardinality(SeriesDays) = Len(ActedArgs.recurringDays[1]))
        => LET sent == proposalsToConfirm(response[1],
                                          OrElse(request[1].timezoneOffset, 0))
               list == response[1].proposals[1]
           IN  /\ Len(sent) = Len(list)
               /\ \A i \in 1..Len(list) : sent[i].start = list[i].start
               /\ ActedArgs.durationMinutes >= 15 => Pairs(sent) = Pairs(list)

----------------------------------------------------------------------------
(* Properties of processMessage: relative dates *)

SaysTomorrow == HasWord(request[1].message, "tomorrow")

SaysToday ==
    HasWord(request[1].message, "today") \/ HasWord(request[1].message, "tonight")

\* The current date on the caller's clock, as a day number.
CallerToday == DayNumber(request[1].now - TzOf(request[1]))

\* The first day on or after the anchor day that is one of the weekdays.
FirstOccurrenceDay(anchorDay, days) ==
    anchorDay + Min({(d - ((anchorDay + 4) % 7) + 7) % 7 : d \in days})

\* The result is dated the given day of the caller's calendar: its one
\* proposal starts on that day, or its series is anchored on it.
ResultDated(day) ==
    IF response[1].type = "create_event"
    THEN DayNumber(LocalInstant(response[1].proposal[1].start)) = day
    ELSE (SeriesDays \subseteq 0..6 /\ response[1].proposals[1] # << >>)
            => DayNumber(LocalInstant(response[1].proposals[1][1].start))
                   = FirstOccurrenceDay(day, SeriesDays)

\* C28: when the message contains the word tomorrow, the result (the
\* anchor of a series) is dated the caller's current date plus one day; when
\* it contains today or tonight and not tomorrow, the caller's current
\* date; whatever date the remote extractor returned.
C28_RelativeDateWins ==
    (ActedOnCall /\ IsCreate(response[1]))
        => /\ SaysTomorrow => ResultDated(CallerToday + 1)
           /\ (SaysToday /\ ~SaysTomorrow) => ResultDated(CallerToday)

\* "tonight", east of UTC in the small hours of 1 January, while the
\* extractor returned 28 February.
C28_Witness ==
    /\ ActedOnCall
    /\ response[1].type = "create_event"
    /\ request[1].message = << "dinner", "tonight" >>
    /\ request[1].timezoneOffset = Some(-60)
    /\ request[1].now = LateSunday
    /\ ActedArgs.date = << 2024, 2, 28 >>
    /\ DayNumber(LocalInstant(response[1].proposal[1].start))
           = DaysFromCivil(2024, 1, 1)

----------------------------------------------------------------------------
(* Properties of the week grid: moving an event *)

\* C29: a completed move-drag of a stored event calls updateEvent with an
\* end minus start equal to the duration the event had before the drag, for
\* every event the store can hold, those that cross midnight included, and
\* for every drop position.
C29_MoveKeepsDuration ==
    \A id \in DOMAIN events, currentWeekStart \in WeekViews,
       dragStartTime \in DragTimes, dragCurrentInfo \in DropInputs :
        Grabbed(id, currentWeekStart, dragStartTime)
            => LET args == MoveArgs(events[id], dragStartTime,
                                    dragCurrentInfo, currentWeekStart)
               IN  args.end - args.start = events[id].end - events[id].start

\* The part of C29 the grid keeps: the duration of an event that starts
\* and ends on one day is kept by every drop that leaves its new start on
\* the day of the drop or later.
C29_MoveKeepsDurationWithinADay ==
    \A id \in DOMAIN events, currentWeekStart \in WeekViews,
       dragStartTime \in DragTimes, dragCurrentInfo \in DropInputs :
        (/\ Grabbed(id, currentWeekStart, dragStartTime)
         /\ DayNumber(events[id].end) = DayNumber(events[id].start)
         /\ getHoursAndMinutes(events[id].start)
                + dragCurrentInfo.time - dragStartTime >= 0)
            => LET args == MoveArgs(events[id], dragStartTime,
                                    dragCurrentInfo, currentWeekStart)
               IN  args.end - args.start = events[id].end - events[id].start

----------------------------------------------------------------------------
(* Properties of the household: its owner *)

\* The owner of every household has a user record and a membership of
\* the household with the role of owner.
OwnersInPlace(d) ==
    \A w \in DOMAIN d.workspaces :
        /\ d.workspaces[w].ownerId \in DOMAIN d.users
        /\ \E m \in DOMAIN d.memberships :
              /\ d.memberships[m].userId = d.workspaces[w].ownerId
              /\ d.memberships[m].workspaceId = w
              /\ d.memberships[m].role = "owner"

OwnsAHousehold(d, userId) ==
    \E w \in DOMAIN d.workspaces : d.workspaces[w].ownerId = userId

\* C30: after any sequence of setupHousehold, addMember and removeMember
\* calls the owner's user record and owner membership still exist, and
\* removeMember on the owner fails and removes neither the user nor any of
\* the user's memberships.
C30_OwnerIsNeverRemoved ==
    [][/\ OwnersInPlace(db')
       /\ (/\ workspaceCalls' = workspaceCalls + 1
           /\ lastWorkspaceCall'.op = "removeMember"
           /\ OwnsAHousehold(db, lastWorkspaceCall'.actorUserId))
              => (lastWorkspaceCall'.threw /\ db' = db)]_vars

\* removeMember was called on the owner of a household of two and failed,
\* after a member of another household had been removed.
C30_Witness ==
    /\ lastWorkspaceCall.op = "removeMember"
    /\ lastWorkspaceCall.threw
    /\ OwnsAHousehold(db, lastWorkspaceCall.actorUserId)
    /\ db.users[lastWorkspaceCall.actorUserId].email = householdEmail("Pat")
    /\ \E u \in DOMAIN db.users : db.users[u].email = householdEmail("Kim")
    /\ OwnersInPlace(db)

====
